---- MODULE Spec2Model ----
(***************************************************************************)
(* Model of the editor camera controller of rusty-editor (src/camera.rs):  *)
(* the object-picking algorithm CameraController::pick with its two pick   *)
(* contexts.  The scene graph is an argument of pick (graph: &Graph), so   *)
(* every call draws the graph's visibility flags and the ray/box           *)
(* intersection results from a bounded set.                                *)
(***************************************************************************)
EXTENDS Integers, Sequences, FiniteSets, TLC

(* ------------------------------ bounds -------------------------------- *)
\* number of mesh nodes of the user scene (children of the graph root)
NumMeshes == 2
\* distances from the ray origin to an intersection point range over 1..MaxDist
MaxDist == 2
\* cursor positions are 0..MaxCursor; 0 stands for Vector2::default()
MaxCursor == 1
\* a mouse move is by MaxDelta pixels, to either side, along each axis
MaxDelta == 200
\* yaw is followed for MaxTurnSteps mouse moves to either side of 0
MaxTurnSteps == 1
\* a drag accumulator is followed for MaxDragSteps mouse moves to either side of 0
MaxDragSteps == 2
\* at most MaxHeld keys are held down at a time
MaxHeld == 4
\* the frame time dt of update ranges over 1..MaxDt
MaxDt == 2
\* the paths of scene files are 1..MaxPath
MaxPath == 2
\* the material editor builds at most MaxWidgets property widgets
MaxWidgets == 3
\* a selection holds at most MaxSelected handles, out of 1..MaxHandle
MaxSelected == 3
MaxHandle == 2

(* --------------------------- the scene graph --------------------------- *)
\* Option<T>: None is the empty sequence, Some(x) the sequence holding x
None == <<>>
Some(x) == <<x>>

\* graph.get_root()
GraphRoot == 0
\* the editor root: the node CameraController::new links the pivot to
EditorRoot == 1
\* self.pivot
Pivot == 2
\* self.camera
Camera == 3

Meshes == 4..(3 + NumMeshes)
Nodes == 0..(3 + NumMeshes)
Cursors == 0..MaxCursor

\* the ascending sequence of the integers lo..hi
RECURSIVE Range(_, _)
Range(lo, hi) == IF lo > hi THEN <<>> ELSE <<lo>> \o Range(lo + 1, hi)

\* node.children(): the graph after CameraController::new (pivot linked to
\* the editor root, camera a child of the pivot) plus the scene's meshes
children(n) ==
    CASE n = GraphRoot -> <<EditorRoot>> \o Range(4, 3 + NumMeshes)
      [] n = EditorRoot -> <<Pivot>>
      [] n = Pivot -> <<Camera>>
      [] OTHER -> <<>>

\* the variant of Node stored under each handle after construction
NodeKind(n) ==
    CASE n \in {GraphRoot, EditorRoot, Pivot} -> "Base"
      [] n = Camera -> "Camera"
      [] OTHER -> "Mesh"

Min(a, b) == IF a < b THEN a ELSE b

(* ------------------------------ the state ------------------------------ *)
VARIABLES
    editor_context,   \* CameraController::editor_context
    scene_context,    \* CameraController::scene_context
    stack,            \* CameraController::stack
    call,             \* the most recent pick call: arguments, result, context before it
    run,              \* per mode: consecutive picks with unchanged cursor and candidates
    controller,       \* the other fields of CameraController: yaw, pitch, flags, ...
    input,            \* history: the keys and buttons held, the most recent event
    panicked,         \* the program has panicked
    restriction,      \* Menu::restriction
    windows,          \* history: the windows opened and not yet closed
    editor_scene,     \* MenuContext::editor_scene: path, selector_flag, next_path
    ui,               \* the window messages sent to the user interface, not yet handled
    flow,             \* history: the message handled last and what the call did
    material,         \* MaterialEditor::material: the properties of the material set
    properties,       \* MaterialEditor::properties: property name <-> widget
    built,            \* the number of widgets the user interface has built
    edit,             \* history: the editor's last call, its message and its commands
    compared          \* two selections and what eq and first returned for them

pickVars == <<editor_context, scene_context, stack>>
flowVars == <<editor_scene, ui, flow>>
materialVars == <<material, properties, built, edit>>
selectionVars == <<compared>>
menuVars == <<restriction, windows, editor_scene, ui, flow, materialVars, selectionVars>>
vars == <<editor_context, scene_context, stack, call, run, controller, input, panicked,
          restriction, windows, editor_scene, ui, flow,
          material, properties, built, edit, compared>>

\* #[derive(Default)] struct PickContext
PickContextDefault ==
    [pick_list |-> <<>>, pick_index |-> 0, old_selection_hash |-> 0, old_cursor_pos |-> 0]

(* ------------------------ CameraController::pick ----------------------- *)
\* the axis-aligned bounding box pick tests a node against:
\* the mesh's own box, the degenerate default box, or the unit box
BoundingBox(graph, handle, root) ==
    CASE graph.kind[handle] = "Mesh" -> "mesh"
      [] graph.kind[handle] = "Base" /\ (handle = GraphRoot \/ handle = root) -> "default"
      [] OTHER -> "unit"

\* object_space_ray.aabb_intersection_points(&aabb): the two intersection
\* points, given by their distances Some(<<da, db>>) from the ray origin, or None.
\* graph.points holds the results for the ray of the call at hand,
\* camera.make_ray(cursor_pos, screen_size) taken into the node's object space.
\* AxisAlignedBoundingBox::default() is empty and is never hit.
aabb_intersection_points(graph, handle, aabb) ==
    IF aabb = "default" THEN None ELSE graph.points[handle]

\* mutant: the graph root is tested against its box like every other node
Evaluate_RootIncluded(graph, root, handle, pick_list) ==
    LET aabb == BoundingBox(graph, handle, root)
        points == aabb_intersection_points(graph, handle, aabb)
    IN  IF points # None
        THEN LET da == points[1][1]
                 db == points[1][2]
                 closest_distance == Min(da, db)
             IN  Append(pick_list,
                        [position |-> <<handle, IF da < db THEN 0 ELSE 1>>,
                         node |-> handle,
                         toi |-> closest_distance])
        ELSE pick_list

\* the body of the traversal loop after the visibility and filter tests:
\* the coarse intersection test and the push of a CameraPickResult
Evaluate(graph, root, handle, pick_list) ==
    LET aabb == BoundingBox(graph, handle, root)
        points == aabb_intersection_points(graph, handle, aabb)
    IN  IF handle # GraphRoot /\ points # None
        THEN LET da == points[1][1]
                 db == points[1][2]
                 closest_distance == Min(da, db)
             IN  Append(pick_list,
                        [position |-> <<handle, IF da < db THEN 0 ELSE 1>>,
                         node |-> handle,
                         toi |-> closest_distance])
        ELSE pick_list

\* mutant: the graph root is not skipped when it is given as the root
IgnoreEditorNode_NotGraphRoot(editor_only, handle, root) ==
    ~editor_only /\ handle = root /\ handle # GraphRoot

\* mutant: the editor root is not skipped in a full-scene pick
IgnoreEditorNode_Never(editor_only, handle, root) == FALSE

\* if !editor_only && handle == root { continue; }
IgnoreEditorNode(editor_only, handle, root) == ~editor_only /\ handle = root

\* mutant: the visibility flag is not looked at
GlobalVisibility_Always(graph, handle) == TRUE

\* node.global_visibility()
GlobalVisibility(graph, handle) == graph.global_visibility[handle]

\* mutant: the filter is not asked
FilterAccepts_Always(filter, handle) == TRUE

\* filter(handle, node): the caller's predicate, given as the set of nodes it accepts
FilterAccepts(filter, handle) == handle \in filter

\* mutant: the children are pushed twice
PushChildren_Twice(st, handle) == st \o children(handle) \o children(handle)

\* self.stack.extend_from_slice(node.children())
PushChildren(st, handle) == st \o children(handle)

\* mutant: a rejected node takes its children with it
ContinueRejected_Pruned(st2, popped) == popped

\* if !node.global_visibility() || !filter(handle, node) { continue; }: the
\* stack the loop goes on with; the children were pushed before the tests
ContinueRejected(st2, popped) == st2

\* while let Some(handle) = self.stack.pop() { ... }
\* acc.visited: the handles popped; acc.filtered: the handles the filter was
\* called on; acc.stack: the stack when the loop is left
RECURSIVE Traverse(_, _, _, _, _, _)
Traverse(graph, root, editor_only, filter, st, acc) ==
    IF st = <<>> THEN [acc EXCEPT !.stack = st]
    ELSE
        LET handle == st[Len(st)]
            popped == SubSeq(st, 1, Len(st) - 1)
            seen == [acc EXCEPT !.visited = Append(@, handle)]
        IN  IF IgnoreEditorNode(editor_only, handle, root)
            THEN Traverse(graph, root, editor_only, filter, popped, seen)
            ELSE
                LET st2 == PushChildren(popped, handle)
                IN  IF ~GlobalVisibility(graph, handle)
                    THEN Traverse(graph, root, editor_only, filter,
                                  ContinueRejected(st2, popped), seen)
                    ELSE
                        LET asked == [seen EXCEPT !.filtered = Append(@, handle)]
                        IN  IF ~FilterAccepts(filter, handle)
                            THEN Traverse(graph, root, editor_only, filter,
                                          ContinueRejected(st2, popped), asked)
                            ELSE Traverse(graph, root, editor_only, filter, st2,
                                     [asked EXCEPT !.pick_list =
                                         Evaluate(graph, root, handle, @)])

\* mutant: x is inserted before the elements of equal toi
RECURSIVE InsertByToi_BeforeEqual(_, _)
InsertByToi_BeforeEqual(x, s) ==
    IF s = <<>> THEN <<x>>
    ELSE IF x.toi <= s[1].toi THEN <<x>> \o s
    ELSE <<s[1]>> \o InsertByToi_BeforeEqual(x, Tail(s))

\* insert x behind every element whose toi is not greater (keeps equal elements in order)
RECURSIVE InsertByToi(_, _)
InsertByToi(x, s) ==
    IF s = <<>> THEN <<x>>
    ELSE IF x.toi < s[1].toi THEN <<x>> \o s
    ELSE <<s[1]>> \o InsertByToi(x, Tail(s))

\* mutant: the list is left in traversal order
SortByToi_Unsorted(s) == s

\* pick_list.sort_by(|a, b| a.toi.partial_cmp(&b.toi).unwrap()): a stable sort
RECURSIVE SortByToi(_)
SortByToi(s) ==
    IF s = <<>> THEN <<>>
    ELSE InsertByToi(s[Len(s)], SortByToi(SubSeq(s, 1, Len(s) - 1)))

\* DefaultHasher::new(): the hasher's initial state
HasherNew == 1
HashBase == Cardinality(Nodes) + 1
\* mutant: the handle is not fed to the hasher
HashNode_IgnoreNode(hasher, node) == hasher

\* result.node.hash(&mut hasher): the handle is fed to the running hash.  The
\* 64-bit hash is modelled by a sequential hash that has no collisions on
\* the lists of the model.
HashNode(hasher, node) == hasher * HashBase + (node + 1)

\* for result in pick_list.iter() { result.node.hash(&mut hasher) }; hasher.finish()
RECURSIVE HashList(_, _)
HashList(hasher, list) ==
    IF list = <<>> THEN hasher
    ELSE HashList(HashNode(hasher, list[1].node), Tail(list))

SelectionHash(pick_list) == HashList(HasherNew, pick_list)

\* the start of the traversal: the editor root or the graph root
StartNode(root, editor_only) == IF editor_only THEN root ELSE GraphRoot

\* mutant: the wrap test is pick_index > len
NextPickIndex_WrapLate(context, list, selection_hash, cursor_pos) ==
    IF selection_hash = context.old_selection_hash /\ cursor_pos = context.old_cursor_pos
    THEN IF context.pick_index + 1 > Len(list) THEN 0 ELSE context.pick_index + 1
    ELSE 0

\* mutant: a different selection does not start from the beginning
NextPickIndex_KeepOnChange(context, list, selection_hash, cursor_pos) ==
    IF selection_hash = context.old_selection_hash /\ cursor_pos = context.old_cursor_pos
    THEN IF context.pick_index + 1 >= Len(list) THEN 0 ELSE context.pick_index + 1
    ELSE context.pick_index

\* the cycling step: advance and wrap pick_index, or start from the beginning
NextPickIndex(context, list, selection_hash, cursor_pos) ==
    IF selection_hash = context.old_selection_hash /\ cursor_pos = context.old_cursor_pos
    THEN IF context.pick_index + 1 >= Len(list) THEN 0 ELSE context.pick_index + 1
    ELSE 0

\* mutant: the nearest entry is returned whatever pick_index is
PickReturn_First(list, index) == IF list # <<>> THEN Some(list[1]) ELSE None

\* the value pick returns: a copy of the entry at pick_index, or None
PickReturn(list, index) ==
    IF list # <<>> /\ index + 1 <= Len(list) THEN Some(list[index + 1]) ELSE None

\* the body of pick when self.camera is a camera: the new context and the result
PickCamera(context, cursor_pos, graph, root, editor_only, filter) ==
    LET acc == Traverse(graph, root, editor_only, filter,
                        <<StartNode(root, editor_only)>>,
                        [pick_list |-> <<>>, visited |-> <<>>, filtered |-> <<>>,
                         stack |-> <<StartNode(root, editor_only)>>])
        list == SortByToi(acc.pick_list)
        selection_hash == SelectionHash(list)
        index == NextPickIndex(context, list, selection_hash, cursor_pos)
    IN  [context |-> [pick_list |-> list,
                      pick_index |-> index,
                      old_selection_hash |-> selection_hash,
                      old_cursor_pos |-> cursor_pos],
         stack |-> acc.stack,
         ret |-> PickReturn(list, index)]

(* ------------------------- the input handlers -------------------------- *)
\* Angles and drag offsets are counted in units of 0.0001: a mouse move of
\* one pixel is 0.01, that is MoveScale units.
MoveScale == 100
\* 90.0f32.to_radians(), in the same units
PitchLimit == 15708
\* speed_factor is counted in hundredths: 1.0, 2.0 and 0.25
SpeedNormal == 100
SpeedFast == 200
SpeedSlow == 25

\* the KeyCode values the handlers match on, and one they do not
MovementKeys == {"W", "S", "A", "D", "Space", "Q", "E"}
ModifierKeys == {"LControl", "LShift"}
Keys == MovementKeys \cup ModifierKeys \cup {"Tab"}
\* the MouseButton values
Buttons == {"Left", "Right", "Middle"}

\* the fields of CameraController besides the handles, the stack and the contexts
ControllerNew ==
    [yaw |-> 0, pitch |-> 0, rotate |-> FALSE,
     drag_side |-> 0, drag_up |-> 0, drag |-> FALSE,
     move_left |-> FALSE, move_right |-> FALSE,
     move_forward |-> FALSE, move_backward |-> FALSE,
     move_up |-> FALSE, move_down |-> FALSE,
     speed_factor |-> SpeedNormal]

\* mutant: the pitch is clamped from below only
ClampPitch_NoUpper(pitch) ==
    IF pitch < -PitchLimit THEN -PitchLimit ELSE pitch

\* the two clamping statements of on_mouse_move
ClampPitch(pitch) ==
    LET p == IF pitch > PitchLimit THEN PitchLimit ELSE pitch
    IN  IF p < -PitchLimit THEN -PitchLimit ELSE p

\* mutant: the rotation is on whatever the rotate flag says
OnMouseMove_NoGate(c, delta) ==
    LET r == [c EXCEPT !.yaw = @ - delta[1] * MoveScale,
                       !.pitch = ClampPitch(@ + delta[2] * MoveScale)]
    IN  IF r.drag
        THEN [r EXCEPT !.drag_side = @ - delta[1] * MoveScale,
                       !.drag_up = @ - delta[2] * MoveScale]
        ELSE r

\* pub fn on_mouse_move(&mut self, delta: Vector2<f32>)
OnMouseMove(c, delta) ==
    LET r == IF c.rotate
             THEN [c EXCEPT !.yaw = @ - delta[1] * MoveScale,
                            !.pitch = ClampPitch(@ + delta[2] * MoveScale)]
             ELSE c
    IN  IF r.drag
        THEN [r EXCEPT !.drag_side = @ - delta[1] * MoveScale,
                       !.drag_up = @ - delta[2] * MoveScale]
        ELSE r

\* mutant: the release of any button ends the rotation
OnMouseButtonUp_EndsRotate(c, button) ==
    CASE button = "Right" -> [c EXCEPT !.rotate = FALSE]
      [] button = "Middle" -> [c EXCEPT !.drag = FALSE, !.rotate = FALSE]
      [] OTHER -> [c EXCEPT !.rotate = FALSE]

\* pub fn on_mouse_button_up(&self, button: MouseButton)
OnMouseButtonUp(c, button) ==
    CASE button = "Right" -> [c EXCEPT !.rotate = FALSE]
      [] button = "Middle" -> [c EXCEPT !.drag = FALSE]
      [] OTHER -> c

\* pub fn on_mouse_button_down(&self, button: MouseButton)
OnMouseButtonDown(c, button) ==
    CASE button = "Right" -> [c EXCEPT !.rotate = TRUE]
      [] button = "Middle" -> [c EXCEPT !.drag = TRUE]
      [] OTHER -> c

\* mutant: the release of a modifier leaves speed_factor as it is
OnKeyUp_NoReset(c, key) ==
    CASE key = "W" -> [c EXCEPT !.move_forward = FALSE]
      [] key = "S" -> [c EXCEPT !.move_backward = FALSE]
      [] key = "A" -> [c EXCEPT !.move_left = FALSE]
      [] key = "D" -> [c EXCEPT !.move_right = FALSE]
      [] key \in {"Space", "Q"} -> [c EXCEPT !.move_up = FALSE]
      [] key = "E" -> [c EXCEPT !.move_down = FALSE]
      [] OTHER -> c

\* mutant: the release of any key resets speed_factor
OnKeyUp_AlwaysReset(c, key) ==
    CASE key = "W" -> [c EXCEPT !.move_forward = FALSE, !.speed_factor = SpeedNormal]
      [] key = "S" -> [c EXCEPT !.move_backward = FALSE, !.speed_factor = SpeedNormal]
      [] key = "A" -> [c EXCEPT !.move_left = FALSE, !.speed_factor = SpeedNormal]
      [] key = "D" -> [c EXCEPT !.move_right = FALSE, !.speed_factor = SpeedNormal]
      [] key \in {"Space", "Q"} -> [c EXCEPT !.move_up = FALSE, !.speed_factor = SpeedNormal]
      [] key = "E" -> [c EXCEPT !.move_down = FALSE, !.speed_factor = SpeedNormal]
      [] OTHER -> [c EXCEPT !.speed_factor = SpeedNormal]

\* pub fn on_key_up(&self, key: KeyCode)
OnKeyUp(c, key) ==
    CASE key = "W" -> [c EXCEPT !.move_forward = FALSE]
      [] key = "S" -> [c EXCEPT !.move_backward = FALSE]
      [] key = "A" -> [c EXCEPT !.move_left = FALSE]
      [] key = "D" -> [c EXCEPT !.move_right = FALSE]
      [] key \in {"Space", "Q"} -> [c EXCEPT !.move_up = FALSE]
      [] key = "E" -> [c EXCEPT !.move_down = FALSE]
      [] key \in {"LControl", "LShift"} -> [c EXCEPT !.speed_factor = SpeedNormal]
      [] OTHER -> c

\* mutant: a movement key toggles its flag
OnKeyDown_Toggle(c, key) ==
    CASE key = "W" -> [c EXCEPT !.move_forward = ~@]
      [] key = "S" -> [c EXCEPT !.move_backward = ~@]
      [] key = "A" -> [c EXCEPT !.move_left = ~@]
      [] key = "D" -> [c EXCEPT !.move_right = ~@]
      [] key \in {"Space", "Q"} -> [c EXCEPT !.move_up = ~@]
      [] key = "E" -> [c EXCEPT !.move_down = ~@]
      [] key = "LControl" -> [c EXCEPT !.speed_factor = SpeedFast]
      [] key = "LShift" -> [c EXCEPT !.speed_factor = SpeedSlow]
      [] OTHER -> c

\* mutant: the two modifiers are exchanged
OnKeyDown_Swapped(c, key) ==
    CASE key = "W" -> [c EXCEPT !.move_forward = TRUE]
      [] key = "S" -> [c EXCEPT !.move_backward = TRUE]
      [] key = "A" -> [c EXCEPT !.move_left = TRUE]
      [] key = "D" -> [c EXCEPT !.move_right = TRUE]
      [] key \in {"Space", "Q"} -> [c EXCEPT !.move_up = TRUE]
      [] key = "E" -> [c EXCEPT !.move_down = TRUE]
      [] key = "LControl" -> [c EXCEPT !.speed_factor = SpeedSlow]
      [] key = "LShift" -> [c EXCEPT !.speed_factor = SpeedFast]
      [] OTHER -> c

\* pub fn on_key_down(&self, key: KeyCode)
OnKeyDown(c, key) ==
    CASE key = "W" -> [c EXCEPT !.move_forward = TRUE]
      [] key = "S" -> [c EXCEPT !.move_backward = TRUE]
      [] key = "A" -> [c EXCEPT !.move_left = TRUE]
      [] key = "D" -> [c EXCEPT !.move_right = TRUE]
      [] key \in {"Space", "Q"} -> [c EXCEPT !.move_up = TRUE]
      [] key = "E" -> [c EXCEPT !.move_down = TRUE]
      [] key = "LControl" -> [c EXCEPT !.speed_factor = SpeedFast]
      [] key = "LShift" -> [c EXCEPT !.speed_factor = SpeedSlow]
      [] OTHER -> c

\* 1 for true and 0 for false
Bit(flag) == IF flag THEN 1 ELSE 0

\* the sum of the axes of the active directions, as its coordinates along the
\* look, side and up axes of the camera, which are taken to be orthonormal
MoveVec(c) ==
    <<Bit(c.move_forward) - Bit(c.move_backward),
      Bit(c.move_left) - Bit(c.move_right),
      Bit(c.move_up) - Bit(c.move_down)>>

\* the square of the length of a vector of integers
NormSq(v) == v[1] * v[1] + v[2] * v[2] + v[3] * v[3]

\* the vector dir * scale / sqrt(norm_sq)
Vec(dir, scale, norm_sq) == [dir |-> dir, scale |-> scale, norm_sq |-> norm_sq]

\* mutant: the sum is scaled without being normalized
KeyboardMove_NoNormalize(c, dt) ==
    LET move_vec == MoveVec(c)
    IN  IF NormSq(move_vec) > 0
        THEN Vec(move_vec, c.speed_factor * 10 * dt, 1)
        ELSE Vec(move_vec, 1, 1)

\* if let Some(v) = move_vec.try_normalize(EPSILON) { move_vec = v.scale(speed_factor * 10.0 * dt) }:
\* the movement the keys ask for; a zero sum has no normal and stays as it is
KeyboardMove(c, dt) ==
    LET move_vec == MoveVec(c)
    IN  IF NormSq(move_vec) > 0
        THEN Vec(move_vec, c.speed_factor * 10 * dt, NormSq(move_vec))
        ELSE Vec(move_vec, 1, 1)

\* mutant: update leaves the drag accumulators as they are
Update_KeepsDrag(c, dt) ==
    [self |-> c, move_vec |-> <<c.drag_side, c.drag_up>>, keyboard |-> KeyboardMove(c, dt)]

\* pub fn update(&mut self, graph: &mut Graph, dt: f32): the controller after
\* the call and the two parts of move_vec, the offset of the pivot: the part
\* from the keys and the part from the drag accumulators
Update(c, dt) ==
    [self |-> [c EXCEPT !.drag_side = 0, !.drag_up = 0],
     move_vec |-> <<c.drag_side, c.drag_up>>,
     keyboard |-> KeyboardMove(c, dt)]

\* mutant: without a camera pick_on_plane returns None, as pick does
PickOnPlane_ReturnsNone(c, graph, intersection) ==
    [self |-> c, panic |-> FALSE,
     ret |-> IF graph.kind[Camera] = "Camera" THEN intersection ELSE None]

\* mutant: pick_on_plane ends the rotation and the drag
PickOnPlane_EndsDrag(c, graph, intersection) ==
    IF graph.kind[Camera] = "Camera"
    THEN [self |-> [c EXCEPT !.rotate = FALSE, !.drag = FALSE],
          panic |-> FALSE, ret |-> intersection]
    ELSE [self |-> c, panic |-> TRUE, ret |-> None]

\* pub fn pick_on_plane(&self, plane, graph, mouse_position, viewport_size, transform);
\* intersection is the result of plane_intersection_point for the transformed ray
PickOnPlane(c, graph, intersection) ==
    IF graph.kind[Camera] = "Camera"
    THEN [self |-> c, panic |-> FALSE, ret |-> intersection]
    ELSE [self |-> c, panic |-> TRUE, ret |-> None]

(* ------------------------------ the inputs ----------------------------- *)
\* the results aabb_intersection_points can give for a node that is hit:
\* the distances <<da, db>> of the two intersection points from the ray origin
Hits == {Some(<<d, MaxDist>>) : d \in 1..MaxDist}

\* the node variants after construction
Kinds == [n \in Nodes |-> NodeKind(n)]

\* the pivot and the camera sit at the origin of the ray, which starts inside
\* their unit boxes: the point behind the origin is the farther one
OriginHit == Some(<<MaxDist, 1>>)

AllVisible == [n \in Nodes |-> TRUE]
Hide(h) == [n \in Nodes |-> n # h]

\* every node is hit: the nodes a call must leave out are all candidates
AllHit == [n \in Nodes |-> IF n \in Meshes THEN Some(<<MaxDist, MaxDist>>) ELSE OriginHit]

\* the graphs of the full-scene picks: each mesh is missed or hit at any
\* distance, the first mesh is visible or not
SceneGraphs ==
    {[kind |-> Kinds, global_visibility |-> v,
      points |-> [n \in Nodes |-> IF n \in Meshes THEN m[n] ELSE OriginHit]] :
        v \in {AllVisible, Hide(4)}, m \in [Meshes -> Hits \cup {None}]}

\* the graphs of the editor-only picks: the pivot or the camera may be invisible
EditorGraphs ==
    {[kind |-> Kinds, global_visibility |-> v, points |-> AllHit] :
        v \in {AllVisible, Hide(Pivot), Hide(Camera)}}

\* a graph in which the handle self.camera does not refer to a camera
NoCameraGraph ==
    [kind |-> [Kinds EXCEPT ![Camera] = "Base"],
     global_visibility |-> AllVisible,
     points |-> AllHit]

\* the graphs a call is given: the calls vary the nodes their traversal can reach
GraphsFor(editor_only, root) ==
    IF editor_only THEN EditorGraphs
    ELSE IF root = GraphRoot
         THEN {[kind |-> Kinds, global_visibility |-> AllVisible, points |-> AllHit]}
         ELSE SceneGraphs

\* the <<editor_only, root>> pairs of the calls: an editor-only pick starts at
\* the editor root; a full-scene pick is given the editor root or the graph root
Modes == {<<TRUE, EditorRoot>>, <<FALSE, EditorRoot>>, <<FALSE, GraphRoot>>}
\* the filters of the calls, each the set of nodes it accepts
Filters == {Nodes, Nodes \ {Camera, 3 + NumMeshes}}

(* ------------------------------ the actions ---------------------------- *)
\* the handles of a pick list, in order
NodesOf(list) == [i \in 1..Len(list) |-> list[i].node]
NodeSet(list) == {list[i].node : i \in 1..Len(list)}

\* how the candidates of a pick relate to those of the previous pick of the mode
Candidates(old, new) ==
    IF NodesOf(new) = NodesOf(old) THEN "same"
    ELSE IF NodeSet(new) = NodeSet(old) THEN "reordered"
    ELSE "changed"

\* the keys that are down
Held == input.held

(* --------------------------- menu.rs: the menu -------------------------- *)
\* the windows of the menu that Menu::new puts into restriction.triggers
Triggers ==
    {"message_boxes.new_scene", "message_boxes.close_scene", "message_boxes.load_scene",
     "message_boxes.exit", "message_boxes.validation", "load_file_selector",
     "save_file_selector", "path_fixer.window", "configurator.window",
     "settings_window.window"}

\* the destinations of window messages: the triggers and a window that is not one
Windows == Triggers \cup {"other_window"}

\* WindowMessage::{Open, OpenModal, Close}
WindowMessages == {"Open", "OpenModal", "Close"}

\* let mut restriction = MenuShortcutRestriction{active: false, triggers: ...}
RestrictionNew == [active |-> FALSE, triggers |-> Triggers]

\* Menu::handle_ui_message, the part that writes self.restriction
HandleUiMessage(r, data, destination) ==
    CASE data = "OpenModal" ->
            IF destination \in r.triggers THEN [r EXCEPT !.active = TRUE] ELSE r
      [] data = "Open" ->
            IF destination \in r.triggers THEN [r EXCEPT !.active = TRUE] ELSE r
      [] data = "Close" ->
            IF destination \in r.triggers THEN [r EXCEPT !.active = FALSE] ELSE r
      [] OTHER -> r

\* the paths of scene files
Paths == 1 .. MaxPath

\* enum SaveFileSelectorFlag
SaveFileSelectorFlags == {"NewScene", "ClosingScene", "LoadingScene", "Exiting"}

\* struct MessageBoxes, without the validation box
ConfirmationBoxes ==
    {"message_boxes.new_scene", "message_boxes.close_scene", "message_boxes.load_scene",
     "message_boxes.exit"}

\* the two file selectors
FileSelectors == {"save_file_selector", "load_file_selector"}

\* the modal dialogs of the save, load, new, close and exit flows
Dialogs == ConfirmationBoxes \cup FileSelectors

\* enum MessageBoxResult
MessageBoxResults == {"Yes", "No", "Cancel"}

\* the menu items whose Click arm reads the scene or opens a dialog
MenuItems == {"save", "save_as", "load", "close_scene", "exit", "new_scene"}

\* the keys of the KeyDown arm, and one that has no shortcut
ShortcutKeys == {"L", "N", "Q", "S", "W"}

\* a Message of the editor's channel
Msg(name, path, force) == [name |-> name, path |-> path, force |-> force]

\* Message::SaveScene(path)
SaveScene(path) == Msg("SaveScene", path, FALSE)

\* Message::LoadScene(path)
LoadScene(path) == Msg("LoadScene", path, FALSE)

\* Message::NewScene
NewScene == Msg("NewScene", 0, FALSE)

\* Message::CloseScene
CloseScene == Msg("CloseScene", 0, FALSE)

\* Message::Exit { force }
Exit(force) == Msg("Exit", 0, force)

\* the fields of EditorScene that the menu reads and writes
EditorScene(path, selector_flag, next_path) ==
    [path |-> path, selector_flag |-> selector_flag, next_path |-> next_path]

\* what a call of handle_ui_message did: the scene after it, the Messages sent
\* on the channel, the windows it asked the user interface to open, a panic
Handled(scene, sent, opened, panic) ==
    [scene |-> scene, sent |-> sent, opened |-> opened, panic |-> panic]

\* Option::unwrap on scene.next_path: the LoadScene message, or a panic
LoadNextPath(scene, before) ==
    IF scene[1].next_path = None
    THEN Handled(scene, before, {}, TRUE)
    ELSE Handled(scene, before \o <<LoadScene(scene[1].next_path[1])>>, {}, FALSE)

\* the message that follows the save for a selector flag
FollowFlag(scene, flag, saved) ==
    CASE flag = "NewScene" -> Handled(scene, saved \o <<NewScene>>, {}, FALSE)
      [] flag = "ClosingScene" -> Handled(scene, saved \o <<CloseScene>>, {}, FALSE)
      [] flag = "LoadingScene" -> LoadNextPath(scene, saved)
      [] flag = "Exiting" -> Handled(scene, saved \o <<Exit(TRUE)>>, {}, FALSE)

\* mutant: the load selector's Commit loads at once whether or not a scene is active
Commit_LoadsAtOnce(scene, destination, path) ==
    IF destination = "save_file_selector"
    THEN IF scene # None /\ scene[1].selector_flag # None
         THEN FollowFlag(scene, scene[1].selector_flag[1], <<SaveScene(path)>>)
         ELSE Handled(scene, <<SaveScene(path)>>, {}, FALSE)
    ELSE IF destination = "load_file_selector"
    THEN Handled(scene, <<LoadScene(path)>>, {}, FALSE)
    ELSE Handled(scene, <<>>, {}, FALSE)

\* UiMessageData::FileSelector(FileSelectorMessage::Commit(path))
Commit(scene, destination, path) ==
    IF destination = "save_file_selector"
    THEN IF scene # None /\ scene[1].selector_flag # None
         THEN FollowFlag(scene, scene[1].selector_flag[1], <<SaveScene(path)>>)
         ELSE Handled(scene, <<SaveScene(path)>>, {}, FALSE)
    ELSE IF destination = "load_file_selector"
    THEN IF scene # None
         THEN Handled(Some([scene[1] EXCEPT !.next_path = Some(path)]), <<>>,
                      {"message_boxes.load_scene"}, FALSE)
         ELSE Handled(scene, <<LoadScene(path)>>, {}, FALSE)
    ELSE Handled(scene, <<>>, {}, FALSE)

\* UiMessageData::MenuItem(MenuItemMessage::Click), the items of the flows
Click(scene, destination) ==
    CASE destination = "save" ->
            IF scene # None /\ scene[1].path # None
            THEN Handled(scene, <<SaveScene(scene[1].path[1])>>, {}, FALSE)
            ELSE Handled(scene, <<>>, {"save_file_selector"}, FALSE)
      [] destination = "save_as" -> Handled(scene, <<>>, {"save_file_selector"}, FALSE)
      [] destination = "load" -> Handled(scene, <<>>, {"load_file_selector"}, FALSE)
      [] destination = "close_scene" ->
            IF scene # None
            THEN Handled(scene, <<>>, {"message_boxes.close_scene"}, FALSE)
            ELSE Handled(scene, <<CloseScene>>, {}, FALSE)
      [] destination = "exit" -> Handled(scene, <<Exit(FALSE)>>, {}, FALSE)
      [] destination = "new_scene" ->
            IF scene # None
            THEN Handled(scene, <<>>, {"message_boxes.new_scene"}, FALSE)
            ELSE Handled(scene, <<NewScene>>, {}, FALSE)
      [] OTHER -> Handled(scene, <<>>, {}, FALSE)

\* the shortcuts of the KeyDown arm
Shortcut(scene, key, control, shift) ==
    CASE key = "L" ->
            IF control THEN Handled(scene, <<>>, {"load_file_selector"}, FALSE)
            ELSE Handled(scene, <<>>, {}, FALSE)
      [] key = "N" ->
            IF ~control THEN Handled(scene, <<>>, {}, FALSE)
            ELSE IF scene # None
            THEN Handled(scene, <<>>, {"message_boxes.new_scene"}, FALSE)
            ELSE Handled(scene, <<NewScene>>, {}, FALSE)
      [] key = "Q" ->
            IF ~control THEN Handled(scene, <<>>, {}, FALSE)
            ELSE IF scene # None
            THEN Handled(scene, <<>>, {"message_boxes.close_scene"}, FALSE)
            ELSE Handled(scene, <<CloseScene>>, {}, FALSE)
      [] key = "S" ->
            IF control /\ shift
            THEN IF scene # None
                 THEN Handled(scene, <<>>, {"save_file_selector"}, FALSE)
                 ELSE Handled(scene, <<>>, {}, FALSE)
            ELSE IF control
            THEN IF scene = None THEN Handled(scene, <<>>, {}, FALSE)
                 ELSE IF scene[1].path # None
                 THEN Handled(scene, <<SaveScene(scene[1].path[1])>>, {}, FALSE)
                 ELSE Handled(scene, <<>>, {"save_file_selector"}, FALSE)
            ELSE Handled(scene, <<>>, {}, FALSE)
      [] OTHER -> Handled(scene, <<>>, {}, FALSE)

\* mutant: the shortcuts are handled whatever the restriction says
WidgetKeyDown_Unrestricted(r, scene, key, control, shift) ==
    Shortcut(scene, key, control, shift)

\* UiMessageData::Widget(WidgetMessage::KeyDown(key))
WidgetKeyDown(r, scene, key, control, shift) ==
    IF ~r.active THEN Shortcut(scene, key, control, shift)
    ELSE Handled(scene, <<>>, {}, FALSE)

\* the selector flag a confirmation box sets when the scene has no path yet
FlagOf(destination) ==
    CASE destination = "message_boxes.exit" -> "Exiting"
      [] destination = "message_boxes.new_scene" -> "NewScene"
      [] destination = "message_boxes.close_scene" -> "ClosingScene"
      [] destination = "message_boxes.load_scene" -> "LoadingScene"

\* mutant: Yes on a scene with a path sends the follow-up without saving
AnswerYes_NoSave(scene, destination) ==
    IF scene = None THEN Handled(scene, <<>>, {}, FALSE)
    ELSE IF scene[1].path # None
    THEN FollowFlag(scene, FlagOf(destination), <<>>)
    ELSE Handled(Some([scene[1] EXCEPT !.selector_flag = Some(FlagOf(destination))]),
                 <<>>, {"save_file_selector"}, FALSE)

\* the MessageBoxResult::Yes arms
AnswerYes(scene, destination) ==
    IF scene = None THEN Handled(scene, <<>>, {}, FALSE)
    ELSE IF scene[1].path # None
    THEN LET r == FollowFlag(scene, FlagOf(destination),
                             <<SaveScene(scene[1].path[1])>>)
         IN  IF destination = "message_boxes.close_scene" /\ ~r.panic
             THEN [r EXCEPT !.scene = Some([scene[1] EXCEPT !.selector_flag = None])]
             ELSE r
    ELSE Handled(Some([scene[1] EXCEPT !.selector_flag = Some(FlagOf(destination))]),
                 <<>>, {"save_file_selector"}, FALSE)

\* mutant: No on the exit box exits only when a scene is active
AnswerNo_ExitNeedsScene(scene, destination) ==
    IF scene = None THEN Handled(scene, <<>>, {}, FALSE)
    ELSE FollowFlag(scene, FlagOf(destination), <<>>)

\* the MessageBoxResult::No arms
AnswerNo(scene, destination) ==
    IF destination = "message_boxes.exit" THEN Handled(scene, <<Exit(TRUE)>>, {}, FALSE)
    ELSE IF scene = None THEN Handled(scene, <<>>, {}, FALSE)
    ELSE FollowFlag(scene, FlagOf(destination), <<>>)

\* UiMessageData::MessageBox(MessageBoxMessage::Close(result))
MessageBoxClose(scene, destination, result) ==
    IF destination \notin ConfirmationBoxes THEN Handled(scene, <<>>, {}, FALSE)
    ELSE CASE result = "Yes" -> AnswerYes(scene, destination)
           [] result = "No" -> AnswerNo(scene, destination)
           [] OTHER -> Handled(scene, <<>>, {}, FALSE)

(* ------------------ world/physics/selection.rs: selections -------------- *)
\* the number of times x occurs in the slice
Occurrences(slice, x) == Cardinality({i \in 1 .. Len(slice) : slice[i] = x})

\* utils::is_slice_equal_permutation, as it is named: the two slices hold the
\* same elements the same number of times
IsSliceEqualPermutation(a, b) ==
    /\ Len(a) = Len(b)
    /\ \A i \in 1 .. Len(a) : Occurrences(a, a[i]) = Occurrences(b, a[i])

\* mutant: the derived equality of the two vectors
RigidBodyEq_Derived(self, other) == self = other

\* impl PartialEq for RigidBodySelection
RigidBodyEq(self, other) == IsSliceEqualPermutation(self, other)

\* impl PartialEq for JointSelection
JointEq(self, other) == IsSliceEqualPermutation(self, other)

\* RigidBodySelection::first, JointSelection::first
First(self) == IF self = <<>> THEN None ELSE Some(self[1])

\* the selections: the vectors of at most MaxSelected handles
Selections == UNION {[1 .. n -> 1 .. MaxHandle] : n \in 0 .. MaxSelected}

\* the two kinds of selection
SelectionKinds == {"RigidBody", "Joint"}

\* a comparison of two selections of a kind, both ways round, and their first()
Compared(kind, self, other) ==
    [kind |-> kind, self |-> self, other |-> other,
     eq |-> IF kind = "RigidBody" THEN RigidBodyEq(self, other) ELSE JointEq(self, other),
     eq_reverse |-> IF kind = "RigidBody" THEN RigidBodyEq(other, self)
                    ELSE JointEq(other, self),
     eq_self |-> IF kind = "RigidBody" THEN RigidBodyEq(self, self) ELSE JointEq(self, self),
     first |-> First(self)]

(* ---------------------- material.rs: the material editor ---------------- *)
\* the names of material properties
PropertyNames == {"diffuseColor", "texCoordScale"}

\* enum PropertyValue, by variant: the scalars of a NumericUpDown, one of the
\* vectors, and one of the variants whose widgets send no value message
PropertyValues == {"Float", "Int", "UInt", "Vector3", "Bool"}

\* the data of a UiMessage
MessageData ==
    {"NumericUpDown", "Vec2Editor", "Vec3Editor", "Vec4Editor", "DropAsset", "DropOther",
     "CheckBox"}

\* enum MessageDirection
MessageDirections == {"ToWidget", "FromWidget"}

\* Material::properties(): a map from names to values, as a set of pairs
Materials ==
    UNION {[names -> PropertyValues] : names \in SUBSET PropertyNames}

\* BiDirHashMap::forward_map().keys()
Names(map) == {pair[1] : pair \in map}

\* BiDirHashMap::value_of
ValueOf(map, name) ==
    IF name \in Names(map) THEN Some((CHOOSE pair \in map : pair[1] = name)[2]) ELSE None

\* BiDirHashMap::key_of
KeyOf(map, handle) ==
    IF \E pair \in map : pair[2] = handle
    THEN Some((CHOOSE pair \in map : pair[2] = handle)[1]) ELSE None

\* a UiMessage of the material editor: data, direction, destination
EditorMessage(data, direction, destination) ==
    [data |-> data, direction |-> direction, destination |-> destination]

\* the first branch of "Keep properties in sync": the widgets of the names the
\* material has no more are removed
RemoveMissing(m, map) == {pair \in map : pair[1] \in DOMAIN m}

\* the names the second branch builds widgets for
Missing(m, map) == DOMAIN m \ Names(map)

RECURSIVE Insert(_, _, _)
\* the second branch of "Keep properties in sync": a widget is built for each name
\* the map has not; the handles are given out in the order of building
Insert(names, map, handle) ==
    IF names = {} THEN map
    ELSE LET name == CHOOSE n \in names : TRUE
         IN  Insert(names \ {name}, map \cup {<<name, handle + 1>>}, handle + 1)

\* "Keep properties in sync": the two branches are chosen by the sizes alone
KeepInSync(m, map, handle) ==
    IF Cardinality(DOMAIN m) < Cardinality(map) THEN RemoveMissing(m, map)
    ELSE IF Cardinality(DOMAIN m) > Cardinality(map) THEN Insert(Missing(m, map), map, handle)
    ELSE map

\* MaterialEditor::sync_to_model: the map after it, the widgets built, and the
\* panic of .expect("Desync has occurred.") in "Sync values"
SyncToModel(mat, map, handle) ==
    IF mat = None THEN [properties |-> map, built |-> handle, panic |-> FALSE]
    ELSE LET kept == KeepInSync(mat[1], map, handle)
         IN  [properties |-> kept,
              built |-> handle + Cardinality(kept \ map),
              panic |-> \E name \in DOMAIN mat[1] : ValueOf(kept, name) = None]

\* a SetMaterialPropertyValueCommand: the property's name and the value's variant
SetMaterialPropertyValue(name, value) == [name |-> name, value |-> value]

\* the value a NumericUpDown message makes, by the variant the material stores
NumericValue(stored) ==
    CASE stored = "Float" -> Some("Float")
      [] stored = "Int" -> Some("Int")
      [] stored = "UInt" -> Some("UInt")
      [] OTHER -> None

\* mutant: the value messages are taken whatever their direction
FromWidget_Any(message) == TRUE

\* if message.direction() == MessageDirection::FromWidget
FromWidget(message) == message.direction = "FromWidget"

\* mutant: a NumericUpDown message always makes a Float
PropertyValue_AlwaysFloat(mat, name, message) ==
    CASE message.data = "NumericUpDown" /\ FromWidget(message) -> Some("Float")
      [] message.data = "Vec2Editor" /\ FromWidget(message) -> Some("Vector2")
      [] message.data = "Vec3Editor" /\ FromWidget(message) -> Some("Vector3")
      [] message.data = "Vec4Editor" /\ FromWidget(message) -> Some("Vector4")
      [] message.data = "DropAsset" -> Some("Sampler")
      [] OTHER -> None

\* let property_value = match message.data() { .. }
PropertyValue(mat, name, message) ==
    CASE message.data = "NumericUpDown" /\ FromWidget(message) -> NumericValue(mat[1][name])
      [] message.data = "Vec2Editor" /\ FromWidget(message) -> Some("Vector2")
      [] message.data = "Vec3Editor" /\ FromWidget(message) -> Some("Vector3")
      [] message.data = "Vec4Editor" /\ FromWidget(message) -> Some("Vector4")
      [] message.data = "DropAsset" -> Some("Sampler")
      [] OTHER -> None

\* MaterialEditor::handle_ui_message: the commands sent, and the panic of
\* property_ref(property_name).unwrap() on a name the material has not
EditorHandleUiMessage(mat, map, message) ==
    IF mat = None THEN [commands |-> <<>>, panic |-> FALSE]
    ELSE LET property_name == KeyOf(map, message.destination)
         IN  IF property_name = None THEN [commands |-> <<>>, panic |-> FALSE]
             ELSE IF /\ message.data = "NumericUpDown" /\ FromWidget(message)
                     /\ property_name[1] \notin DOMAIN mat[1]
             THEN [commands |-> <<>>, panic |-> TRUE]
             ELSE LET property_value == PropertyValue(mat, property_name[1], message)
                  IN  [commands |->
                           IF property_value = None THEN <<>>
                           ELSE <<SetMaterialPropertyValue(property_name[1],
                                                           property_value[1])>>,
                       panic |-> FALSE]

\* a UiMessage: its data, its destination, and the key with its modifiers, the
\* MessageBoxResult or the path that the data carries
UiMessage(data, destination, arg, path) ==
    [data |-> data, destination |-> destination, arg |-> arg, path |-> path,
     modifiers |-> <<FALSE, FALSE>>]

\* an event: the handler called, its key or button, its delta, and for update
\* the part of move_vec it took from the drag accumulators
Event(kind, key, delta, move_vec) ==
    [kind |-> kind, key |-> key, delta |-> delta, move_vec |-> move_vec,
     keyboard |-> Vec(<<0, 0, 0>>, 1, 1), dt |-> 0]

\* CameraController::new
Init ==
    /\ editor_context = PickContextDefault
    /\ scene_context = PickContextDefault
    /\ stack = <<>>
    /\ call = [op |-> "new", cursor_pos |-> 0, graph |-> NoCameraGraph, root |-> GraphRoot,
               editor_only |-> FALSE, filter |-> Nodes, ret |-> None,
               pre_index |-> 0, pre_cursor |-> 0, candidates |-> "same",
               intersection |-> None]
    /\ run = [m \in BOOLEAN |-> 0]
    /\ controller = ControllerNew
    /\ input = [held |-> {}, buttons |-> {}, orderly |-> TRUE, repeated |-> FALSE,
                modifier |-> <<"none", "none">>, press |-> "none",
                event |-> Event("new", "", <<0, 0>>, <<0, 0>>)]
    /\ panicked = FALSE
    /\ restriction = RestrictionNew
    /\ windows = {}
    /\ editor_scene = None
    /\ ui = <<>>
    /\ flow = [message |-> UiMessage("new", "", "", 0), sent |-> <<>>, opened |-> {},
               pending |-> <<>>, exited |-> FALSE,
               origin |-> "none", answered |-> {}, committed |-> 0]
    /\ material = None
    /\ properties = {}
    /\ built = 0
    /\ edit = [op |-> "new", message |-> EditorMessage("", "ToWidget", 0),
               commands |-> <<>>]
    /\ compared = Compared("RigidBody", <<>>, <<>>)

\* mutant: both modes use the editor context
UsesEditorContext_Always(editor_only) == TRUE

\* let context = if editor_only { &mut self.editor_context } else { &mut self.scene_context }
UsesEditorContext(editor_only) == editor_only

\* pub fn pick(&mut self, cursor_pos, graph, root, screen_size, editor_only, filter)
Pick(cursor_pos, graph, root, editor_only, filter) ==
    LET context == IF UsesEditorContext(editor_only) THEN editor_context ELSE scene_context
        r == PickCamera(context, cursor_pos, graph, root, editor_only, filter)
        is_camera == graph.kind[Camera] = "Camera"
        before == IF editor_only THEN editor_context ELSE scene_context
        candidates == Candidates(before.pick_list, r.context.pick_list)
    IN  /\ ~panicked
        /\ editor_context' =
            IF is_camera /\ UsesEditorContext(editor_only) THEN r.context ELSE editor_context
        /\ scene_context' =
            IF is_camera /\ ~UsesEditorContext(editor_only) THEN r.context ELSE scene_context
        /\ stack' = IF is_camera THEN r.stack ELSE stack
        /\ call' = [op |-> "pick", cursor_pos |-> cursor_pos, graph |-> graph, root |-> root,
                    editor_only |-> editor_only, filter |-> filter,
                    ret |-> IF is_camera THEN r.ret ELSE None,
                    pre_index |-> before.pick_index,
                    pre_cursor |-> before.old_cursor_pos,
                    candidates |-> IF is_camera THEN candidates ELSE "same",
                    intersection |-> None]
        /\ run' = IF ~is_camera THEN run
                  ELSE [run EXCEPT ![editor_only] =
                           IF cursor_pos = before.old_cursor_pos /\ candidates = "same"
                           THEN Min(@ + 1, Len(r.context.pick_list) + 1)
                           ELSE 0]
        /\ input' = [input EXCEPT !.event = Event("pick", "", <<0, 0>>, <<0, 0>>)]
        /\ UNCHANGED <<controller, panicked, menuVars>>

\* a pick with a camera in the graph
PickScene ==
    \E cursor_pos \in Cursors, mode \in Modes, filter \in Filters :
        \E graph \in GraphsFor(mode[1], mode[2]) :
            Pick(cursor_pos, graph, mode[2], mode[1], filter)

\* a pick while self.camera is not a camera: pick reads none of its other arguments
PickWithoutCamera ==
    \E editor_only \in BOOLEAN : Pick(0, NoCameraGraph, EditorRoot, editor_only, Nodes)

Next == PickScene \/ PickWithoutCamera

Spec == Init /\ [][Next]_vars

(* --------------------- the traversal on varied graphs ------------------ *)
\* the graph root is a base node, a mesh or a camera; the graph root or the
\* pivot, the nodes with children, may be invisible; every node is hit
TraversalGraphs ==
    {[kind |-> [Kinds EXCEPT ![GraphRoot] = k], global_visibility |-> v, points |-> AllHit] :
        k \in {"Base", "Mesh", "Camera"},
        v \in {AllVisible, Hide(GraphRoot), Hide(Pivot)}}

\* the filters: the graph root or the pivot may be rejected
TraversalFilters == {Nodes, Nodes \ {GraphRoot}, Nodes \ {Pivot}}

\* the modes, and an editor-only pick that starts at the graph root
TraversalModes == Modes \cup {<<TRUE, GraphRoot>>}

PickVaried ==
    \E mode \in TraversalModes, graph \in TraversalGraphs, filter \in TraversalFilters :
        Pick(0, graph, mode[2], mode[1], filter)

NextTraversal == PickVaried

SpecTraversal == Init /\ [][NextTraversal]_vars

(* ----------------------- the input events as actions ------------------- *)
Abs(x) == IF x < 0 THEN -x ELSE x

\* a call of on_key_down
KeyDown(key) ==
    /\ ~panicked
    /\ Cardinality(input.held \cup {key}) <= MaxHeld
    /\ controller' = OnKeyDown(controller, key)
    /\ input' = [input EXCEPT
                    !.held = @ \cup {key},
                    !.repeated = (input.event.kind = "on_key_down" /\ input.event.key = key),
                    !.modifier = IF key \in ModifierKeys THEN <<"down", key>> ELSE @,
                    !.press = IF key \in ModifierKeys THEN key ELSE @,
                    !.event = Event("on_key_down", key, <<0, 0>>, <<0, 0>>)]
    /\ UNCHANGED <<pickVars, call, run, panicked, menuVars>>

\* a call of on_key_up
KeyUp(key) ==
    /\ ~panicked
    /\ controller' = OnKeyUp(controller, key)
    /\ input' = [input EXCEPT
                    !.held = @ \ {key},
                    !.orderly = @ /\ key \in input.held,
                    !.repeated = (input.event.kind = "on_key_up" /\ input.event.key = key),
                    !.modifier = IF key \in ModifierKeys THEN <<"up", key>> ELSE @,
                    !.event = Event("on_key_up", key, <<0, 0>>, <<0, 0>>)]
    /\ UNCHANGED <<pickVars, call, run, panicked, menuVars>>

\* a call of on_mouse_button_down
MouseButtonDown(button) ==
    /\ ~panicked
    /\ controller' = OnMouseButtonDown(controller, button)
    /\ input' = [input EXCEPT
                    !.buttons = @ \cup {button},
                    !.event = Event("on_mouse_button_down", button, <<0, 0>>, <<0, 0>>)]
    /\ UNCHANGED <<pickVars, call, run, panicked, menuVars>>

\* a call of on_mouse_button_up
MouseButtonUp(button) ==
    /\ ~panicked
    /\ controller' = OnMouseButtonUp(controller, button)
    /\ input' = [input EXCEPT
                    !.buttons = @ \ {button},
                    !.event = Event("on_mouse_button_up", button, <<0, 0>>, <<0, 0>>)]
    /\ UNCHANGED <<pickVars, call, run, panicked, menuVars>>

\* a call of on_mouse_move, while yaw and the drag accumulators stay in the
\* range that is followed
MouseMove(delta) ==
    LET c == OnMouseMove(controller, delta)
    IN  /\ ~panicked
        /\ Abs(c.yaw) <= MaxTurnSteps * MaxDelta * MoveScale
        /\ Abs(c.drag_side) <= MaxDragSteps * MaxDelta * MoveScale
        /\ Abs(c.drag_up) <= MaxDragSteps * MaxDelta * MoveScale
        /\ controller' = c
        /\ input' = [input EXCEPT !.event = Event("on_mouse_move", "", delta, <<0, 0>>)]
        /\ UNCHANGED <<pickVars, call, run, panicked, menuVars>>

\* a call of update
UpdateCall(dt) ==
    LET r == Update(controller, dt)
    IN  /\ ~panicked
        /\ controller' = r.self
        /\ input' = [input EXCEPT
                        !.event = [Event("update", "", <<0, 0>>, r.move_vec) EXCEPT
                                      !.keyboard = r.keyboard, !.dt = dt]]
        /\ UNCHANGED <<pickVars, call, run, panicked, menuVars>>

\* a call of pick_on_plane
PickOnPlaneCall(graph, intersection) ==
    LET r == PickOnPlane(controller, graph, intersection)
    IN  /\ ~panicked
        /\ controller' = r.self
        /\ panicked' = r.panic
        /\ call' = [op |-> "pick_on_plane", cursor_pos |-> 0, graph |-> graph,
                    root |-> GraphRoot, editor_only |-> FALSE, filter |-> Nodes,
                    ret |-> r.ret, pre_index |-> 0, pre_cursor |-> 0,
                    candidates |-> "same", intersection |-> intersection]
        /\ input' = [input EXCEPT !.event = Event("pick_on_plane", "", <<0, 0>>, <<0, 0>>)]
        /\ UNCHANGED <<pickVars, run, menuVars>>

(* ------------------- the key handlers on their own --------------------- *)
\* every key, pressed and released in any order
NextKeys ==
    \/ \E key \in Keys : KeyDown(key)
    \/ \E key \in Keys : KeyUp(key)

SpecKeys == Init /\ [][NextKeys]_vars

(* ------------------------ the controller in use ------------------------ *)
\* the keys of this specification: a movement key and a modifier
ControllerKeys == {"W", "LControl"}

\* the mouse moves: MaxDelta pixels along both axes, right and up or left and down
Deltas == {<<MaxDelta, -MaxDelta>>, <<-MaxDelta, MaxDelta>>}

\* the graph after construction, every node visible and hit
CameraGraph == [kind |-> Kinds, global_visibility |-> AllVisible, points |-> AllHit]

\* what plane_intersection_point can return: no point, or a point
Intersections == {None, Some(1)}

\* a full-scene pick at the default cursor position; it cycles through the meshes
PickMeshes == Pick(0, CameraGraph, EditorRoot, FALSE, Nodes)

\* the keys are pressed and released in turn
NextController ==
    \/ \E key \in ControllerKeys \ Held : KeyDown(key)
    \/ \E key \in ControllerKeys \cap Held : KeyUp(key)
    \/ \E button \in Buttons : MouseButtonDown(button)
    \/ \E button \in Buttons : MouseButtonUp(button)
    \/ \E delta \in Deltas : MouseMove(delta)
    \/ \E dt \in 1..MaxDt : UpdateCall(dt)
    \/ \E graph \in {CameraGraph, NoCameraGraph}, intersection \in Intersections :
           PickOnPlaneCall(graph, intersection)
    \/ PickMeshes

SpecController == Init /\ [][NextController]_vars

(* --------------------------- update and the keys ----------------------- *)
\* six movement keys and a modifier, pressed and released in turn, the middle
\* button, mouse moves and updates
MoveKeys == {"W", "S", "A", "D", "Space", "E", "LShift"}

NextMove ==
    \/ \E key \in MoveKeys \ Held : KeyDown(key)
    \/ \E key \in MoveKeys \cap Held : KeyUp(key)
    \/ MouseButtonDown("Middle")
    \/ MouseButtonUp("Middle")
    \/ \E delta \in Deltas : MouseMove(delta)
    \/ \E dt \in 1..MaxDt : UpdateCall(dt)

SpecMove == Init /\ [][NextMove]_vars

(* ------------------- the speed factor among all events ----------------- *)
\* a movement key and the two modifiers, pressed and released in any order,
\* among mouse events, updates and picks
SpeedKeys == {"W", "LControl", "LShift"}

NextSpeed ==
    \/ \E key \in SpeedKeys : KeyDown(key)
    \/ \E key \in SpeedKeys : KeyUp(key)
    \/ MouseButtonDown("Right")
    \/ MouseButtonUp("Right")
    \/ MouseMove(<<MaxDelta, -MaxDelta>>)
    \/ \E dt \in 1..MaxDt : UpdateCall(dt)
    \/ PickMeshes

SpecSpeed == Init /\ [][NextSpeed]_vars

(* ------------------------- the menu's window messages ------------------- *)
\* handle_ui_message with WindowMessage::Open addressed to a window
WindowOpen(destination) ==
    /\ restriction' = HandleUiMessage(restriction, "Open", destination)
    /\ windows' = windows \cup {destination}
    /\ UNCHANGED <<selectionVars, materialVars, pickVars, call, run, controller, input, panicked, flowVars>>

\* handle_ui_message with WindowMessage::OpenModal addressed to a window
WindowOpenModal(destination) ==
    /\ restriction' = HandleUiMessage(restriction, "OpenModal", destination)
    /\ windows' = windows \cup {destination}
    /\ UNCHANGED <<selectionVars, materialVars, pickVars, call, run, controller, input, panicked, flowVars>>

\* handle_ui_message with WindowMessage::Close addressed to a window that is open
WindowClose(destination) ==
    /\ destination \in windows
    /\ restriction' = HandleUiMessage(restriction, "Close", destination)
    /\ windows' = windows \ {destination}
    /\ UNCHANGED <<selectionVars, materialVars, pickVars, call, run, controller, input, panicked, flowVars>>

NextMenu ==
    \/ \E destination \in Windows : WindowOpen(destination)
    \/ \E destination \in Windows : WindowOpenModal(destination)
    \/ \E destination \in Windows : WindowClose(destination)

SpecMenu == Init /\ [][NextMenu]_vars

(* --------------------- the menu's save and load flows ------------------- *)
\* the dialogs that are shown and wait for the user
Shown == (windows \cap Dialogs) \ flow.answered

\* the user can act: the program runs, and the window messages and the
\* Messages of the calls before have been handled
Idle == ~panicked /\ ~flow.exited /\ ui = <<>> /\ flow.pending = <<>>

\* why the save file selector was asked for: by the Save or Save As item or
\* shortcut, or by a Yes answer of a confirmation box
Origin(opened, by) ==
    IF "save_file_selector" \in opened /\ "save_file_selector" \notin windows
    THEN by ELSE flow.origin

\* ui.send_message(WindowMessage::open_modal(window, ..)) for the window asked for
OpenModal(opened) ==
    IF opened = {} THEN <<>> ELSE <<(<<"OpenModal", CHOOSE w \in opened : TRUE>>)>>

\* one call of handle_ui_message with a message of the user: r is what the call
\* did; the dialog that was answered closes
Handle(message, r, by, closes) ==
    /\ editor_scene' = r.scene
    /\ panicked' = r.panic
    /\ ui' = ui \o [i \in 1 .. Cardinality(closes) |-> <<"Close", message.destination>>]
                \o OpenModal(r.opened)
    /\ flow' = [flow EXCEPT
                   !.message = message, !.sent = r.sent, !.opened = r.opened,
                   !.pending = r.sent,
                   !.origin = Origin(r.opened, by),
                   !.answered = @ \cup closes,
                   !.committed = IF message.data = "Commit"
                                    /\ message.destination = "load_file_selector"
                                 THEN message.path ELSE @]
    /\ UNCHANGED <<selectionVars, materialVars, pickVars, call, run, controller, input, restriction, windows>>

\* a click on a menu item; the dialogs are modal, so none is shown
ItemClick(destination) ==
    /\ Idle /\ windows \cap Dialogs = {}
    /\ Handle(UiMessage("Click", destination, "", 0),
              Click(editor_scene, destination), "item", {})

\* a key goes down: WidgetMessage::KeyDown reaches the menu whatever is shown
KeyDownMessage(key, control, shift) ==
    /\ Idle
    /\ Handle([UiMessage("KeyDown", "", key, 0) EXCEPT !.modifiers = <<control, shift>>],
              WidgetKeyDown(restriction, editor_scene, key, control, shift), "item", {})

\* the user answers a confirmation box that is shown; the box closes
Answer(destination, result) ==
    /\ Idle /\ destination \in Shown
    /\ Handle(UiMessage("MessageBoxClose", destination, result, 0),
              MessageBoxClose(editor_scene, destination, result), "answer",
              {destination})

\* the user commits a path in a file selector that is shown; the selector closes
CommitPath(destination, path) ==
    /\ Idle /\ destination \in Shown
    /\ Handle(UiMessage("Commit", destination, "", path),
              Commit(editor_scene, destination, path), "answer", {destination})

\* the user dismisses a file selector that is shown: no message but its Close
Dismiss(destination) ==
    /\ Idle /\ destination \in Shown
    /\ ui' = <<(<<"Close", destination>>)>>
    /\ flow' = [flow EXCEPT !.message = UiMessage("Cancel", destination, "", 0),
                            !.sent = <<>>, !.opened = {},
                            !.answered = @ \cup {destination}]
    /\ UNCHANGED <<selectionVars, materialVars, pickVars, call, run, controller, input, panicked, restriction,
                   windows, editor_scene>>

\* handle_ui_message with the next window message that the user interface was sent
Deliver ==
    /\ ~panicked /\ ~flow.exited /\ ui # <<>>
    /\ LET data == Head(ui)[1]
           destination == Head(ui)[2]
       IN  /\ restriction' = HandleUiMessage(restriction, data, destination)
           /\ windows' = IF data = "Close" THEN windows \ {destination}
                         ELSE windows \cup {destination}
           /\ flow' = [flow EXCEPT
                          !.message = UiMessage(data, destination, "", 0),
                          !.sent = <<>>, !.opened = {},
                          !.answered = IF data = "Close" THEN @ \ {destination} ELSE @]
    /\ ui' = Tail(ui)
    /\ UNCHANGED <<selectionVars, materialVars, pickVars, call, run, controller, input, panicked, editor_scene>>

\* what the editor does with a Message, as the messages are named: SaveScene
\* gives the scene its path, NewScene and LoadScene put a new scene in place,
\* CloseScene leaves none
Received(scene, msg) ==
    CASE msg.name = "SaveScene" ->
            IF scene = None THEN scene ELSE Some([scene[1] EXCEPT !.path = Some(msg.path)])
      [] msg.name = "NewScene" -> Some(EditorScene(None, None, None))
      [] msg.name = "LoadScene" -> Some(EditorScene(Some(msg.path), None, None))
      [] msg.name = "CloseScene" -> None
      [] OTHER -> scene

\* the editor receives the next Message of the channel; Exit { force: false }
\* makes it show the exit box (pub exit), Exit { force: true } ends the program
Receive ==
    /\ ~panicked /\ ~flow.exited /\ flow.pending # <<>>
    /\ LET msg == Head(flow.pending)
       IN  /\ editor_scene' = Received(editor_scene, msg)
           /\ ui' = IF msg = Exit(FALSE)
                    THEN ui \o <<(<<"OpenModal", "message_boxes.exit">>)>> ELSE ui
           /\ flow' = [flow EXCEPT !.message = UiMessage("Receive", "", msg.name, 0),
                                   !.sent = <<>>, !.opened = {},
                                   !.pending = Tail(@),
                                   !.exited = (msg = Exit(TRUE))]
    /\ UNCHANGED <<selectionVars, materialVars, pickVars, call, run, controller, input, panicked, restriction,
                   windows>>

NextFlow ==
    \/ \E destination \in MenuItems : ItemClick(destination)
    \/ \E key \in ShortcutKeys, control \in BOOLEAN, shift \in BOOLEAN :
           KeyDownMessage(key, control, shift)
    \/ \E destination \in ConfirmationBoxes, result \in MessageBoxResults :
           Answer(destination, result)
    \/ \E destination \in FileSelectors, path \in Paths : CommitPath(destination, path)
    \/ \E destination \in FileSelectors : Dismiss(destination)
    \/ Deliver
    \/ Receive

SpecFlow == Init /\ [][NextFlow]_vars

(* ----------------------- the material editor's calls -------------------- *)
\* the material becomes mat and sync_to_model runs
Synced(op, mat) ==
    LET r == SyncToModel(mat, properties, built)
    IN  /\ ~panicked
        /\ r.built <= MaxWidgets
        /\ material' = mat
        /\ properties' = r.properties
        /\ built' = r.built
        /\ panicked' = r.panic
        /\ edit' = [edit EXCEPT !.op = op, !.commands = <<>>]
        /\ UNCHANGED <<selectionVars, pickVars, call, run, controller, input, restriction, windows,
                       flowVars>>

\* MaterialEditor::set_material
SetMaterial(mat) == Synced("set_material", mat)

\* a property is added to the material that is set, then sync_to_model
AddProperty(name, value) ==
    /\ material # None /\ name \notin DOMAIN material[1]
    /\ Synced("add", Some([n \in DOMAIN material[1] \cup {name} |->
                              IF n = name THEN value ELSE material[1][n]]))

\* a property is removed from the material that is set, then sync_to_model
RemoveProperty(name) ==
    /\ material # None /\ name \in DOMAIN material[1]
    /\ Synced("remove", Some([n \in DOMAIN material[1] \ {name} |-> material[1][n]]))

\* a call of MaterialEditor::handle_ui_message
EditorMessageHandled(message) ==
    LET r == EditorHandleUiMessage(material, properties, message)
    IN  /\ ~panicked
        /\ panicked' = r.panic
        /\ edit' = [op |-> "handle_ui_message", message |-> message,
                    commands |-> r.commands]
        /\ UNCHANGED <<selectionVars, pickVars, call, run, controller, input, restriction, windows,
                       flowVars, material, properties, built>>

NextMaterial ==
    \/ \E mat \in {None} \cup {Some(m) : m \in Materials} : SetMaterial(mat)
    \/ \E name \in PropertyNames, value \in PropertyValues : AddProperty(name, value)
    \/ \E name \in PropertyNames : RemoveProperty(name)
    \/ \E data \in MessageData, direction \in MessageDirections,
          destination \in 0 .. MaxWidgets :
           EditorMessageHandled(EditorMessage(data, direction, destination))

SpecMaterial == Init /\ [][NextMaterial]_vars

(* -------------------------- comparing selections ------------------------ *)
\* self == other, other == self and self.first() for two selections
Compare(kind, self, other) ==
    /\ compared' = Compared(kind, self, other)
    /\ UNCHANGED <<materialVars, pickVars, call, run, controller, input, panicked,
                   restriction, windows, flowVars>>

NextSelection ==
    \E kind \in SelectionKinds, self \in Selections, other \in Selections :
        Compare(kind, self, other)

SpecSelection == Init /\ [][NextSelection]_vars

(* ------------------------- names used by the claims -------------------- *)
\* the context of a mode
Ctx(editor_only) == IF editor_only THEN editor_context ELSE scene_context

\* the most recent operation was a pick that found a camera and ran to its end
Completed == call.op = "pick" /\ call.graph.kind[Camera] = "Camera"

\* the context the most recent pick used
Used == Ctx(call.editor_only)

\* the parent of a node in the graph
ParentOf(n) == CHOOSE p \in Nodes : \E i \in 1..Len(children(p)) : children(p)[i] = n

\* n lies in the subtree of r
RECURSIVE InSubtree(_, _)
InSubtree(n, r) ==
    IF n = r THEN TRUE ELSE IF n = GraphRoot THEN FALSE ELSE InSubtree(ParentOf(n), r)

\* the nodes the most recent pick had to evaluate: those below its start node,
\* without the subtree of the editor root in a full-scene pick
Evaluated ==
    {n \in Nodes :
        /\ InSubtree(n, StartNode(call.root, call.editor_only))
        /\ call.editor_only \/ ~InSubtree(n, call.root)}

\* the nodes of Evaluated that are candidates, with the distance of the nearer point
ExpectedHits ==
    {<<n, Min(call.graph.points[n][1][1], call.graph.points[n][1][2])>> :
        n \in {e \in Evaluated :
                 /\ call.graph.global_visibility[e]
                 /\ e \in call.filter
                 /\ e # GraphRoot
                 /\ ~(call.graph.kind[e] = "Base" /\ e = call.root)
                 /\ call.graph.points[e] # None}}

\* the traversal of the most recent pick: its list before the sort, the nodes
\* it popped, the nodes it called the filter on, and the stack it left
Trace ==
    Traverse(call.graph, call.root, call.editor_only, call.filter,
             <<StartNode(call.root, call.editor_only)>>,
             [pick_list |-> <<>>, visited |-> <<>>, filtered |-> <<>>,
              stack |-> <<StartNode(call.root, call.editor_only)>>])

\* the number of occurrences of x in the sequence s
Count(s, x) == Cardinality({i \in 1..Len(s) : s[i] = x})

\* the position of the first occurrence of x in the sequence s
IndexOf(s, x) == CHOOSE i \in 1..Len(s) : s[i] = x /\ \A j \in 1..(i - 1) : s[j] # x

(* -------------------------------- claims ------------------------------- *)
\* C1: cycling.  Count, per mode, the picks since the last pick whose cursor
\* or candidate list differed from the pick before it (run = 0 for that pick).
\* With N >= 1 hits, pick number run <= N of the streak leaves pick_index at
\* run mod N and returns that entry: entries 0, 1, ..., N-1 and then 0 again.
C1_Cycling ==
    \A m \in BOOLEAN :
        LET N == Len(Ctx(m).pick_list)
        IN  (N >= 1 /\ run[m] <= N) =>
                /\ Ctx(m).pick_index = run[m] % N
                /\ (Completed /\ call.editor_only = m) =>
                       call.ret = Some(Ctx(m).pick_list[(run[m] % N) + 1])

\* two hits at different distances, third pick of a streak: the nearer one again
C1_Witness ==
    /\ Completed /\ ~call.editor_only
    /\ Len(scene_context.pick_list) = 2
    /\ scene_context.pick_list[1].toi < scene_context.pick_list[2].toi
    /\ run[FALSE] = 2
    /\ call.pre_index = 1
    /\ call.ret = Some(scene_context.pick_list[1])

\* C2: a pick whose cursor position differs from that of the previous pick of
\* the mode sets pick_index to 0 and returns the nearest hit.
C2_CursorMoveResets ==
    (Completed /\ call.cursor_pos # call.pre_cursor) =>
        /\ Used.pick_index = 0
        /\ Used.pick_list # <<>> => call.ret = Some(Used.pick_list[1])

\* the cursor moved in the middle of a cycle over an unchanged candidate list
C2_Witness ==
    /\ Completed /\ call.cursor_pos # call.pre_cursor
    /\ call.pre_index > 0 /\ call.candidates = "same"
    /\ Len(Used.pick_list) >= 2
    /\ call.ret = Some(Used.pick_list[1])

\* C3: after a completed pick the pick_list of the context it used is sorted
\* by toi and holds exactly one entry for every node evaluated and hit in
\* this call, with the distance of the nearer intersection point.
C3_SortedExactList ==
    Completed =>
        LET list == Used.pick_list
        IN  /\ \A i \in 1..Len(list) - 1 : list[i].toi <= list[i + 1].toi
            /\ {<<list[i].node, list[i].toi>> : i \in 1..Len(list)} = ExpectedHits
            /\ Len(list) = Cardinality(ExpectedHits)

\* the list of the previous pick held other nodes, and the sort moved the
\* node visited second (the child pushed first) to the front
C3_Witness ==
    /\ Completed /\ call.candidates = "changed"
    /\ Len(Used.pick_list) = 2
    /\ Used.pick_list[1].toi < Used.pick_list[2].toi
    /\ Used.pick_list[1].node < Used.pick_list[2].node

\* C4: in both contexts pick_index is below the length of a non-empty
\* pick_list and is 0 when the pick_list is empty.
C4_IndexInRange ==
    \A m \in BOOLEAN :
        /\ Ctx(m).pick_list # <<>> =>
               (0 <= Ctx(m).pick_index /\ Ctx(m).pick_index < Len(Ctx(m).pick_list))
        /\ Ctx(m).pick_list = <<>> => Ctx(m).pick_index = 0

\* one context at the last entry of its list, the other emptied in mid-cycle
C4_Witness ==
    /\ Completed /\ ~call.editor_only
    /\ scene_context.pick_list = <<>> /\ call.pre_index > 0
    /\ Len(editor_context.pick_list) = 2 /\ editor_context.pick_index = 1

\* C5: a pick leaves the context of the other mode, and the streak of the
\* other mode, as they were.
C5_ContextIsolation ==
    [][call'.op = "pick" =>
          /\ call'.editor_only => (scene_context' = scene_context /\ run'[FALSE] = run[FALSE])
          /\ ~call'.editor_only => (editor_context' = editor_context /\ run'[TRUE] = run[TRUE])]_vars

\* an editor-only pick has run while the full-scene cycle stood at its second entry
C5_Witness ==
    /\ Completed /\ call.editor_only
    /\ editor_context.pick_list # <<>>
    /\ Len(scene_context.pick_list) = 2 /\ scene_context.pick_index = 1
    /\ scene_context.old_cursor_pos # editor_context.old_cursor_pos

\* C6: a node the filter rejects is not in the pick_list and is not returned.
C6_FilterExcludes ==
    Completed =>
        /\ \A i \in 1..Len(Used.pick_list) : Used.pick_list[i].node \in call.filter
        /\ call.ret # None => call.ret[1].node \in call.filter

\* the traversal reached a visible node that the ray hits and the filter rejects
C6_Witness ==
    /\ Completed
    /\ \E n \in Evaluated \ {GraphRoot, call.root} :
           /\ n \notin call.filter
           /\ call.graph.global_visibility[n]
           /\ call.graph.points[n] # None
    /\ call.ret # None

\* C7: a node whose global visibility flag is false is not in the pick_list
\* and is not returned.
C7_InvisibleExcluded ==
    Completed =>
        /\ \A i \in 1..Len(Used.pick_list) :
               call.graph.global_visibility[Used.pick_list[i].node]
        /\ call.ret # None => call.graph.global_visibility[call.ret[1].node]

\* the traversal reached an invisible node that the ray hits and the filter accepts
C7_Witness ==
    /\ Completed
    /\ \E n \in Evaluated \ {GraphRoot, call.root} :
           /\ ~call.graph.global_visibility[n]
           /\ n \in call.filter
           /\ call.graph.points[n] # None
    /\ call.ret # None

\* C8: with a camera, pick returns None exactly when the pick_list it built
\* is empty and the entry at the updated pick_index otherwise; the hash and
\* the cursor position are stored in either case.
C8_ReturnValue ==
    Completed =>
        /\ call.ret = None <=> Used.pick_list = <<>>
        /\ Used.pick_list # <<>> => call.ret = Some(Used.pick_list[Used.pick_index + 1])
        /\ Used.old_cursor_pos = call.cursor_pos
        /\ Used.old_selection_hash = SelectionHash(Used.pick_list)

\* an empty result at a new cursor position
C8_Witness ==
    /\ Completed
    /\ Used.pick_list = <<>> /\ call.ret = None
    /\ call.cursor_pos # call.pre_cursor
    /\ Used.old_cursor_pos = call.cursor_pos
    /\ call.candidates = "changed"

\* C9: a full-scene pick neither lists nor returns the editor root or a node
\* of its subtree.
C9_EditorSubtreeExcluded ==
    (Completed /\ ~call.editor_only) =>
        /\ \A i \in 1..Len(Used.pick_list) : ~InSubtree(Used.pick_list[i].node, call.root)
        /\ call.ret # None => ~InSubtree(call.ret[1].node, call.root)

\* a full-scene pick with hits, the pivot and the camera visible, hit and accepted
C9_Witness ==
    /\ Completed /\ ~call.editor_only /\ call.root = EditorRoot
    /\ call.ret # None
    /\ \A n \in {Pivot, Camera} :
           /\ call.graph.global_visibility[n]
           /\ n \in call.filter
           /\ call.graph.points[n] # None

\* C10: when a pick at the same cursor position hits the same set of nodes as
\* the previous pick of the mode, in another order, the selection hash is the
\* same and pick_index advances (with the wrap) instead of going back to 0.
C10_OrderIndependentHash ==
    (Completed /\ call.cursor_pos = call.pre_cursor /\ call.candidates = "reordered") =>
        Used.pick_index = (call.pre_index + 1) % Len(Used.pick_list)

(* ------------------------------ the keys ------------------------------- *)
\* the keys bound to each movement flag by the match arms of the key handlers
KeysOf ==
    [move_forward |-> {"W"}, move_backward |-> {"S"},
     move_left |-> {"A"}, move_right |-> {"D"},
     move_up |-> {"Space", "Q"}, move_down |-> {"E"}]

\* C11: while every key-up follows a key-down of the same key, a movement
\* flag is true if and only if at least one of the keys bound to it is down.
C11_FlagsMatchHeldKeys ==
    input.orderly =>
        \A flag \in DOMAIN KeysOf : controller[flag] <=> (KeysOf[flag] \cap Held # {})

\* C12: in every state and for every key, on_key_down applied twice gives the
\* state on_key_down gives when applied once, and so does on_key_up.
C12_KeyEventsIdempotent ==
    \A key \in Keys :
        /\ OnKeyDown(OnKeyDown(controller, key), key) = OnKeyDown(controller, key)
        /\ OnKeyUp(OnKeyUp(controller, key), key) = OnKeyUp(controller, key)

\* Space was pressed twice in a row
C12_Witness ==
    /\ input.repeated
    /\ input.event.kind = "on_key_down"
    /\ input.event.key = "Space"
    /\ controller.move_up

\* C14 as stated: speed_factor is 2.0 while LControl is held and LShift was not
\* pressed after it, 0.25 while LShift is held and LControl was not pressed
\* after it, also after the other modifier was released.
C14_HeldModifierInEffect ==
    input.orderly =>
        /\ ("LControl" \in Held /\ input.press = "LControl")
               => controller.speed_factor = SpeedFast
        /\ ("LShift" \in Held /\ input.press = "LShift")
               => controller.speed_factor = SpeedSlow

\* C14, amended: speed_factor is 2.0 while LControl is held and no modifier
\* event followed its most recent press, 0.25 likewise for LShift, and 1.0
\* after the release of either modifier, also while the other is still held.
C14_SpeedWhileHeld ==
    /\ ("LControl" \in Held /\ input.modifier = <<"down", "LControl">>)
           => controller.speed_factor = SpeedFast
    /\ ("LShift" \in Held /\ input.modifier = <<"down", "LShift">>)
           => controller.speed_factor = SpeedSlow
    /\ input.modifier[1] = "up" => controller.speed_factor = SpeedNormal

\* LControl was released while LShift, pressed after it, is still held
C14_Witness ==
    /\ input.orderly
    /\ "LShift" \in Held
    /\ input.press = "LShift"
    /\ input.modifier = <<"up", "LControl">>
    /\ controller.speed_factor = SpeedNormal

\* C15: from a new controller, while every key-up follows a key-down of the
\* same key, speed_factor is 1.0 whenever neither modifier is held.
C15_NormalWhenNoneHeld ==
    (input.orderly /\ Held \cap ModifierKeys = {})
        => controller.speed_factor = SpeedNormal

\* LShift was pressed and released again
C15_Witness ==
    /\ input.orderly
    /\ Held \cap ModifierKeys = {}
    /\ input.modifier = <<"up", "LShift">>
    /\ controller.speed_factor = SpeedNormal

(* ------------------------- the mouse and update ------------------------ *)
\* C13: after any sequence of mouse-button, key, mouse-move and update events
\* the pitch lies between -90 and +90 degrees.
C13_PitchClamped ==
    /\ controller.pitch >= -PitchLimit
    /\ controller.pitch <= PitchLimit

\* a mouse move took the pitch to the upper limit
C13_Witness ==
    /\ input.event.kind = "on_mouse_move"
    /\ input.event.delta[2] > 0
    /\ controller.rotate
    /\ controller.pitch = PitchLimit

\* the speed factor the most recent modifier event asks for
SpeedOf(modifier) ==
    CASE modifier = <<"down", "LControl">> -> SpeedFast
      [] modifier = <<"down", "LShift">> -> SpeedSlow
      [] OTHER -> SpeedNormal

\* C16: speed_factor is 0.25, 1.0 or 2.0, and it is the value of the most
\* recent modifier event, whatever keys, mouse events, updates and picks followed.
C16_LastModifierEventWins ==
    /\ controller.speed_factor \in {SpeedSlow, SpeedNormal, SpeedFast}
    /\ controller.speed_factor = SpeedOf(input.modifier)

\* LShift was pressed, and a pick came after it, with W down and the camera turned
C16_Witness ==
    /\ input.event.kind = "pick"
    /\ input.modifier = <<"down", "LShift">>
    /\ controller.speed_factor = SpeedSlow
    /\ controller.move_forward
    /\ controller.yaw # 0

\* C17: a pick while the camera handle is not a camera panics.
C17_PickFailsLoudly ==
    (call.op = "pick" /\ call.graph.kind[Camera] # "Camera") => panicked

\* C18: pick_on_plane panics when the camera handle is not a camera, nothing
\* else panics, and with a camera it returns the result of the ray-plane
\* intersection routine.
C18_PickOnPlaneResult ==
    /\ input.event.kind = "pick_on_plane" =>
           IF call.graph.kind[Camera] = "Camera"
           THEN ~panicked /\ call.ret = call.intersection
           ELSE panicked
    /\ panicked =>
           /\ input.event.kind = "pick_on_plane"
           /\ call.graph.kind[Camera] # "Camera"

\* pick_on_plane was called without a camera
C18_Witness ==
    /\ panicked
    /\ input.event.kind = "pick_on_plane"
    /\ call.graph.kind[Camera] # "Camera"

\* C19: a call of pick_on_plane leaves every field of the controller, the
\* stack and both pick contexts as they are, and with them the cycling of pick.
C19_PickOnPlaneMutatesNothing ==
    [][input'.event.kind = "pick_on_plane" =>
           UNCHANGED <<controller, stack, editor_context, scene_context, run>>]_vars

\* pick_on_plane returned in the middle of a cycle, a drag and a rotation
C19_Witness ==
    /\ input.event.kind = "pick_on_plane"
    /\ ~panicked
    /\ scene_context.pick_index = 1
    /\ run[FALSE] = 1
    /\ controller.rotate
    /\ controller.drag_side # 0
    /\ controller.speed_factor = SpeedFast

\* C20: update takes the drag accumulators into move_vec and sets them to 0,
\* and changes no other field and no pick context; a mouse move while the drag
\* is active subtracts 0.01 * delta from the accumulators.
C20_DragAccumulators ==
    [][/\ input'.event.kind = "update" =>
              /\ controller' = [controller EXCEPT !.drag_side = 0, !.drag_up = 0]
              /\ input'.event.move_vec = <<controller.drag_side, controller.drag_up>>
              /\ UNCHANGED <<editor_context, scene_context>>
       /\ (input'.event.kind = "on_mouse_move" /\ controller.drag) =>
              /\ controller'.drag_side =
                     controller.drag_side - MoveScale * input'.event.delta[1]
              /\ controller'.drag_up =
                     controller.drag_up - MoveScale * input'.event.delta[2]]_vars

\* an update applied the sum of two mouse moves
C20_Witness ==
    /\ input.event.kind = "update"
    /\ input.event.move_vec = <<-2 * MaxDelta * MoveScale, 2 * MaxDelta * MoveScale>>
    /\ controller.drag_side = 0
    /\ controller.drag_up = 0
    /\ scene_context.pick_list # <<>>

(* ----------------------------- the traversal --------------------------- *)
\* C21: every pick runs to its end with an empty stack; it pops no node
\* twice, and only nodes of the subtree of its start node.
C21_TraversalTerminates ==
    /\ stack = <<>>
    /\ Completed =>
           /\ Trace.stack = <<>>
           /\ Len(Trace.visited) <= Cardinality(Nodes)
           /\ \A n \in Nodes : Count(Trace.visited, n) <= 1
           /\ \A i \in 1..Len(Trace.visited) :
                  InSubtree(Trace.visited[i], StartNode(call.root, call.editor_only))

\* a full-scene pick that popped the graph root, the editor root and the
\* meshes, after an earlier pick of the mode
C21_Witness ==
    /\ Completed /\ ~call.editor_only /\ call.root = EditorRoot
    /\ Len(Trace.visited) = 2 + NumMeshes
    /\ run[FALSE] > 0
    /\ stack = <<>>

\* C24: the graph root is in no pick list and is never returned.
C24_GraphRootNeverPicked ==
    /\ GraphRoot \notin NodeSet(editor_context.pick_list)
    /\ GraphRoot \notin NodeSet(scene_context.pick_list)
    /\ (call.op = "pick" /\ call.ret # None) => call.ret[1].node # GraphRoot

\* a pick popped the graph root, a visible and accepted mesh that the ray hits
C24_Witness ==
    /\ Completed
    /\ call.graph.kind[GraphRoot] = "Mesh"
    /\ call.graph.global_visibility[GraphRoot]
    /\ GraphRoot \in call.filter
    /\ call.graph.points[GraphRoot] # None
    /\ Count(Trace.filtered, GraphRoot) = 1
    /\ call.ret # None

\* C25: entries of equal toi are in the order in which the traversal popped
\* their nodes, the child pushed last first.
C25_TiesInTraversalOrder ==
    Completed =>
        \A i \in 1..Len(Used.pick_list), j \in 1..Len(Used.pick_list) :
            (i < j /\ Used.pick_list[i].toi = Used.pick_list[j].toi) =>
                IndexOf(Trace.visited, Used.pick_list[i].node)
                    < IndexOf(Trace.visited, Used.pick_list[j].node)

\* two meshes of equal toi, the one pushed last in front
C25_Witness ==
    /\ Completed /\ ~call.editor_only
    /\ Len(Used.pick_list) = 2
    /\ Used.pick_list[1].toi = Used.pick_list[2].toi
    /\ Used.pick_list[1].node = 3 + NumMeshes
    /\ Used.pick_list[2].node = 2 + NumMeshes
    /\ run[FALSE] > 0

\* C26: the filter is called exactly once on every node the traversal goes
\* into (every popped node but the editor root skipped by a full-scene pick),
\* invisible nodes included.
C26_FilterOncePerVisited ==
    Completed =>
        \A n \in Nodes :
            /\ Count(Trace.filtered, n) <= 1
            /\ (Count(Trace.visited, n) > 0 /\ (call.editor_only \/ n # call.root))
                   => Count(Trace.filtered, n) = 1

\* C27: a node that is invisible or fails the filter still has its children
\* pushed: the traversal pops every node below its start node outside the
\* subtree of the editor root of a full-scene pick, and the hit, visible and
\* accepted ones are in the list.
C27_NoPruning ==
    Completed =>
        /\ {Trace.visited[i] : i \in 1..Len(Trace.visited)} =
               Evaluated \cup (IF call.editor_only THEN {} ELSE {call.root})
        /\ NodeSet(Used.pick_list) = {h[1] : h \in ExpectedHits}
        /\ \A n \in Nodes :
               (~call.editor_only /\ n # call.root /\ InSubtree(n, call.root))
                   => Count(Trace.visited, n) = 0

\* the child of a rejected node is in the list
C27_Witness ==
    /\ Completed
    /\ \E n \in NodeSet(Used.pick_list) :
           /\ Count(Trace.visited, ParentOf(n)) = 1
           /\ ParentOf(n) \notin call.filter

\* C28: a full-scene pick whose root is the graph root pops the graph root
\* only: its list is empty, pick_index is 0 and it returns None.
C28_FullScenePickAtGraphRoot ==
    (Completed /\ ~call.editor_only /\ call.root = GraphRoot) =>
        /\ Trace.visited = <<GraphRoot>>
        /\ scene_context.pick_list = <<>>
        /\ scene_context.pick_index = 0
        /\ call.ret = None

\* such a pick after a pick that had filled the list
C28_Witness ==
    /\ Completed /\ ~call.editor_only /\ call.root = GraphRoot
    /\ call.candidates = "changed"
    /\ scene_context.pick_list = <<>>

(* ------------------------- the mouse buttons --------------------------- *)
\* C22: a mouse move leaves yaw and pitch alone unless rotate is set, and the
\* drag accumulators unless drag is set; with neither set it changes nothing;
\* with rotate set it subtracts 0.01 * delta.x from yaw and adds
\* 0.01 * delta.y to pitch, which is then clamped.
C22_MouseMoveGating ==
    [][input'.event.kind = "on_mouse_move" =>
           LET delta == input'.event.delta
               pitch == controller.pitch + MoveScale * delta[2]
           IN  /\ ~controller.rotate =>
                      /\ controller'.yaw = controller.yaw
                      /\ controller'.pitch = controller.pitch
               /\ ~controller.drag =>
                      /\ controller'.drag_side = controller.drag_side
                      /\ controller'.drag_up = controller.drag_up
               /\ (~controller.rotate /\ ~controller.drag) => controller' = controller
               /\ controller.rotate =>
                      /\ controller'.yaw = controller.yaw - MoveScale * delta[1]
                      /\ controller'.pitch =
                             IF pitch > PitchLimit THEN PitchLimit
                             ELSE IF pitch < -PitchLimit THEN -PitchLimit
                             ELSE pitch]_vars

\* a mouse move with both buttons up, after the camera was turned and dragged
C22_Witness ==
    /\ input.event.kind = "on_mouse_move"
    /\ ~controller.rotate /\ ~controller.drag
    /\ controller.yaw # 0
    /\ controller.pitch # 0
    /\ controller.drag_side # 0

\* C23: rotate is set exactly while the Right button is down and drag exactly
\* while the Middle button is down; the events of another button change
\* neither; a mouse move with both set changes yaw and the drag accumulators.
C23_ButtonsDriveFlags ==
    [][/\ controller'.rotate <=> "Right" \in input'.buttons
       /\ controller'.drag <=> "Middle" \in input'.buttons
       /\ (/\ input'.event.kind \in {"on_mouse_button_down", "on_mouse_button_up"}
           /\ input'.event.key \notin {"Right", "Middle"})
              => controller' = controller
       /\ (input'.event.kind = "on_mouse_move" /\ controller.rotate /\ controller.drag)
              => /\ controller'.yaw # controller.yaw
                 /\ controller'.drag_side # controller.drag_side
                 /\ controller'.drag_up # controller.drag_up]_vars

\* a mouse move with the Right and the Middle button down
C23_Witness ==
    /\ input.event.kind = "on_mouse_move"
    /\ {"Right", "Middle"} \subseteq input.buttons
    /\ controller.rotate /\ controller.drag
    /\ controller.yaw # 0
    /\ controller.pitch # 0
    /\ controller.drag_side # 0
    /\ controller.drag_up # 0

(* ------------------------------- update -------------------------------- *)
\* the movement flags that are set
Active == {flag \in DOMAIN KeysOf : controller[flag]}

\* the pairs of opposite directions
OppositePairs ==
    {{"move_forward", "move_backward"}, {"move_left", "move_right"}, {"move_up", "move_down"}}

\* the vector is the zero vector
IsZero(v) == NormSq(v.dir) * v.scale * v.scale = 0

\* the length of the vector is len
HasLength(v, len) == NormSq(v.dir) * v.scale * v.scale = len * len * v.norm_sq

\* C29 as stated: with no flag set and no drag update moves the pivot by the
\* zero vector; with two opposite flags set and no other the movement of the
\* keys is zero; in every other case its length is speed_factor * 10 * dt.
C29_UpdateMovement ==
    input.event.kind = "update" =>
        /\ (Active = {} /\ input.event.move_vec = <<0, 0>>) => IsZero(input.event.keyboard)
        /\ Active \in OppositePairs => IsZero(input.event.keyboard)
        /\ (Active # {} /\ Active \notin OppositePairs) =>
               HasLength(input.event.keyboard, controller.speed_factor * 10 * input.event.dt)

\* every direction that is set has its opposite set
Cancels == \A pair \in OppositePairs : pair \subseteq Active \/ pair \cap Active = {}

\* C29, amended: with no flag set and no drag update moves the pivot by the
\* zero vector; when every active direction has its opposite active (one pair,
\* two pairs or all three) the movement of the keys is zero; in every other
\* case its length is speed_factor * 10 * dt.
C29_UpdateMovementCancels ==
    input.event.kind = "update" =>
        /\ (Active = {} /\ input.event.move_vec = <<0, 0>>) => IsZero(input.event.keyboard)
        /\ Cancels => IsZero(input.event.keyboard)
        /\ ~Cancels =>
               HasLength(input.event.keyboard, controller.speed_factor * 10 * input.event.dt)

\* an update with forward, backward, left and right set
C29_Witness ==
    /\ input.event.kind = "update"
    /\ Active = {"move_forward", "move_backward", "move_left", "move_right"}
    /\ IsZero(input.event.keyboard)

\* the trigger windows that were opened and not yet closed
OpenTriggers == windows \cap restriction.triggers

\* C30: restriction.active is true in every state in which at least one trigger
\* window has been opened and not yet closed, overlapping windows included
C30_ActiveWhileTriggerOpen == OpenTriggers # {} => restriction.active

\* the call handled a message of the given kind
Handles(data) == flow'.message.data = data

\* C31: while restriction.active is true a KeyDown message sends no Message and
\* opens no dialog, whatever the key and its modifiers; restriction.active is
\* changed only by Open, OpenModal and Close messages addressed to a trigger
C31_ShortcutsRestricted ==
    [][/\ Handles("KeyDown") /\ restriction.active =>
              /\ flow'.sent = <<>> /\ flow'.opened = {} /\ ui' = ui
              /\ editor_scene' = editor_scene
       /\ restriction'.active # restriction.active =>
              /\ flow'.message.data \in WindowMessages
              /\ flow'.message.destination \in restriction.triggers]_vars

\* Ctrl+N was pressed with a trigger window open and nothing happened
C31_Witness ==
    /\ flow.message.data = "KeyDown" /\ flow.message.arg = "N"
    /\ flow.message.modifiers[1]
    /\ restriction.active /\ OpenTriggers # {}
    /\ flow.sent = <<>> /\ flow.opened = {}

\* the follow-up message of a flow, named by its selector flag
FollowUp(flag, scene) ==
    CASE flag = "NewScene" -> NewScene
      [] flag = "ClosingScene" -> CloseScene
      [] flag = "Exiting" -> Exit(TRUE)
      [] flag = "LoadingScene" -> LoadScene(scene[1].next_path[1])

\* the names of the follow-up messages
FollowUps == {"NewScene", "CloseScene", "LoadScene", "Exit"}

\* in the Messages sent by one call, every follow-up comes right after a SaveScene
SavedFirst(sent) ==
    \A i \in 1 .. Len(sent) :
        sent[i].name \in FollowUps => i > 1 /\ sent[i - 1].name = "SaveScene"

\* C32: a Yes answer in a confirmation box with a scene active sends the
\* follow-up only after a SaveScene, in the same call: at once when the scene
\* has a path, otherwise on the later Commit of the save file selector
\* (SaveScene of the committed path, then the follow-up of selector_flag)
C32_SaveBeforeContinue ==
    [][/\ /\ Handles("MessageBoxClose") /\ flow'.message.arg = "Yes"
          /\ editor_scene # None
          => /\ SavedFirst(flow'.sent)
             /\ IF editor_scene[1].path # None
                THEN flow'.sent = <<SaveScene(editor_scene[1].path[1]),
                                    FollowUp(FlagOf(flow'.message.destination),
                                             editor_scene)>>
                ELSE /\ flow'.sent = <<>>
                     /\ flow'.opened = {"save_file_selector"}
                     /\ editor_scene'[1].selector_flag =
                            Some(FlagOf(flow'.message.destination))
       /\ /\ Handles("Commit") /\ flow'.message.destination = "save_file_selector"
          => /\ SavedFirst(flow'.sent)
             /\ flow'.sent[1] = SaveScene(flow'.message.path)
             /\ editor_scene # None /\ editor_scene[1].selector_flag # None =>
                    flow'.sent = <<SaveScene(flow'.message.path),
                                   FollowUp(editor_scene[1].selector_flag[1],
                                            editor_scene)>>]_vars

\* the save file selector that a Yes answer opened was committed: the scene was
\* saved and the follow-up sent
C32_Witness ==
    /\ flow.message.data = "Commit" /\ flow.message.destination = "save_file_selector"
    /\ flow.origin = "answer"
    /\ Len(flow.sent) = 2 /\ flow.sent[1].name = "SaveScene"
    /\ flow.sent[2].name \in FollowUps

\* C33: a Commit of the save file selector that the Save or Save As item or
\* shortcut opened sends exactly one message, SaveScene(path), also after an
\* earlier confirmation flow whose save file selector was dismissed
C33_PlainSaveOnlySaves ==
    [][/\ Handles("Commit") /\ flow'.message.destination = "save_file_selector"
       /\ flow.origin = "item"
       => flow'.sent = <<SaveScene(flow'.message.path)>>]_vars

\* every LoadScene among the Messages carries the path
LoadsOnly(sent, path) ==
    \A i \in 1 .. Len(sent) : sent[i].name = "LoadScene" => sent[i].path = path

\* C34: with a scene active a Commit of the load file selector sends no
\* LoadScene: it stores the path in next_path and opens the load-scene box, and
\* every LoadScene sent from that box (No, or Yes after saving) carries the path
\* committed last, without a panic; with no scene the Commit sends
\* LoadScene(path) at once and opens no box
C34_LoadFlow ==
    [][/\ /\ Handles("Commit") /\ flow'.message.destination = "load_file_selector"
          => IF editor_scene # None
             THEN /\ flow'.sent = <<>>
                  /\ editor_scene'[1].next_path = Some(flow'.message.path)
                  /\ flow'.opened = {"message_boxes.load_scene"}
             ELSE /\ flow'.sent = <<LoadScene(flow'.message.path)>>
                  /\ flow'.opened = {}
                  /\ editor_scene' = None
       /\ \/ /\ Handles("MessageBoxClose")
             /\ flow'.message.destination = "message_boxes.load_scene"
          \/ /\ Handles("Commit") /\ flow'.message.destination = "save_file_selector"
          => /\ ~panicked'
             /\ LoadsOnly(flow'.sent, flow.committed)]_vars

\* the load-scene box was answered No and the path committed last is loaded
C34_Witness ==
    /\ flow.message.data = "MessageBoxClose" /\ flow.message.arg = "No"
    /\ flow.message.destination = "message_boxes.load_scene"
    /\ flow.committed = 1
    /\ flow.sent = <<LoadScene(1)>>

\* C35: No in the new-scene, close-scene or load-scene box sends the follow-up
\* without a SaveScene, and only if a scene is active; No in the exit box sends
\* Exit { force: true } with or without a scene; Cancel in any of the four sends
\* nothing, opens nothing and leaves selector_flag and next_path as they were
C35_NoAndCancel ==
    [][Handles("MessageBoxClose") =>
          LET box == flow'.message.destination
          IN  /\ flow'.message.arg = "No" =>
                    /\ flow'.opened = {} /\ editor_scene' = editor_scene
                    /\ flow'.sent =
                          IF box = "message_boxes.exit" THEN <<Exit(TRUE)>>
                          ELSE IF editor_scene = None THEN <<>>
                          ELSE <<FollowUp(FlagOf(box), editor_scene)>>
              /\ flow'.message.arg = "Cancel" =>
                    /\ flow'.sent = <<>> /\ flow'.opened = {}
                    /\ editor_scene' = editor_scene]_vars

\* No in the exit box while no scene is active: the program is told to exit
C35_Witness ==
    /\ flow.message.data = "MessageBoxClose" /\ flow.message.arg = "No"
    /\ flow.message.destination = "message_boxes.exit"
    /\ editor_scene = None
    /\ flow.sent = <<Exit(TRUE)>>

\* the call before was a sync_to_model with a material set
Synchronised == edit.op \in {"set_material", "add", "remove"} /\ material # None

\* C36: after set_material or a change of the material's properties, followed
\* by sync_to_model with a material set, there was no "Desync has occurred"
\* panic and the keys of the property map are exactly the material's property
\* names, also when the names change and their number does not
C36_PropertiesInSync ==
    Synchronised => ~panicked /\ Names(properties) = DOMAIN material[1]

\* the value messages that sync_to_model sends to the widgets
ValueMessages == {"NumericUpDown", "Vec2Editor", "Vec3Editor", "Vec4Editor"}

\* C37: handle_ui_message sends a SetMaterialPropertyValue command only if a
\* material is set and the destination is a widget of the property map; a value
\* message with direction ToWidget never makes a command; at most one command
\* is sent for a message
C37_CommandsOnlyFromWidgets ==
    [][edit'.op = "handle_ui_message" =>
          /\ Len(edit'.commands) <= 1
          /\ edit'.commands # <<>> =>
                /\ material # None
                /\ \E pair \in properties : pair[2] = edit'.message.destination
          /\ /\ edit'.message.data \in ValueMessages
             /\ edit'.message.direction = "ToWidget"
             => edit'.commands = <<>>]_vars

\* sync_to_model's own message is handled: a NumericUpDown value, ToWidget, for
\* the widget of a Float property, and no command is sent
C37_Witness ==
    /\ edit.op = "handle_ui_message" /\ material # None
    /\ edit.message.data = "NumericUpDown" /\ edit.message.direction = "ToWidget"
    /\ KeyOf(properties, edit.message.destination) # None
    /\ KeyOf(properties, edit.message.destination)[1] \in DOMAIN material[1]
    /\ material[1][KeyOf(properties, edit.message.destination)[1]] = "Float"
    /\ edit.commands = <<>> /\ ~panicked

\* the variants a NumericUpDown edits
Numeric == {"Float", "Int", "UInt"}

\* C38: the command of a NumericUpDown value message carries Float, Int or UInt,
\* the variant the material stores under the widget's name, and there is no
\* command when the stored property is of another variant
C38_NumericKeepsType ==
    [][/\ edit'.op = "handle_ui_message" /\ edit'.message.data = "NumericUpDown"
       /\ ~panicked'
       => LET name == KeyOf(properties, edit'.message.destination)
          IN  /\ \A i \in 1 .. Len(edit'.commands) :
                    /\ name # None /\ edit'.commands[i].name = name[1]
                    /\ edit'.commands[i].value \in Numeric
                    /\ edit'.commands[i].value = material[1][name[1]]
              /\ /\ material # None /\ name # None
                 /\ material[1][name[1]] \notin Numeric
                 => edit'.commands = <<>>]_vars

\* a NumericUpDown of an Int property sent its value: the command carries an Int
C38_Witness ==
    /\ edit.op = "handle_ui_message" /\ edit.message.data = "NumericUpDown"
    /\ edit.message.direction = "FromWidget"
    /\ KeyOf(properties, edit.message.destination) # None
    /\ edit.commands = <<SetMaterialPropertyValue(
                            KeyOf(properties, edit.message.destination)[1], "Int")>>

\* the ways to reorder n handles
Reorderings(n) == {p \in [1 .. n -> 1 .. n] : \A i, j \in 1 .. n : p[i] = p[j] => i = j}

\* other is self with its handles in another order
IsReordering(self, other) ==
    /\ Len(self) = Len(other)
    /\ \E p \in Reorderings(Len(self)) : other = [i \in 1 .. Len(self) |-> self[p[i]]]

====
